---- MODULE Spec2Model ----
(***************************************************************************)
(* Model of the localisation tool chain of Template-Repo:                  *)
(*   .github/workflows/LangSpliter.py   split / merge of the SNBT language *)
(*                                      file,                              *)
(*   .github/workflows/para2github.py   download of the translations and   *)
(*                                      merge into zh_cn.snbt.             *)
(* Strings are sequences of one-character strings, so that escaping,       *)
(* prefix tests, regular expressions and string comparison are computed    *)
(* the way the Python code computes them.                                  *)
(***************************************************************************)
EXTENDS Integers, Sequences, FiniteSets, TLC

VARIABLES
    tool,       \* which program / entry point this run executes
    pc,         \* position of the run inside that program
    \* ---- escape / unescape (LangSpliter.py:60-71)
    raw,        \* the string handed to escape_string_for_snbt
    escaped,    \* escape_string_for_snbt(raw)
    unescaped,  \* unescape_string(escaped)
    \* ---- merge_all_to_snbt (LangSpliter.py:345-422, para2github.py:135-213)
    json_dir,           \* the directory of JSON files: exists, files (name -> content)
    combined_data,      \* OrderedDict of all loaded entries
    reconstructed_data, \* OrderedDict after regrouping key1, key2, ...
    snbt_ready_data,    \* the sorted, escaped mapping handed to snbtlib.dumps
    output_snbt,        \* the output SNBT file: written, data
    printed,            \* the messages printed so far: <<kind, file name>>
    \* ---- split_and_process_all, process_chapter_quests (LangSpliter.py:74-343);
    \*      the output directory of the split is json_dir
    source_lang_file,     \* the source SNBT file: ok (it parses), data
    flatten_single_lines, \* the --flatten-single-lines flag
    chapters_dir,         \* exists, files: os.listdir order, each name, ok, doc
    lang_data,            \* the flat mapping
    groups,               \* chapters_lang_data, quests_data, tasks_data,
                          \* rewards_data, other_data and categorized_data
    task_to_quest_map,
    reward_to_quest_map,
    chapter_idx,          \* the file the second loop over chapters_dir is at
    \* ---- para2github.py: get_files, translate, process_translation,
    \*      save_translation, main
    remote,               \* the translation API: the response of each endpoint
    source_tree,          \* Source/<path> for every path: absent, invalid or an object
    requests,             \* the URLs requests.get was called with, in order
    file_list,            \* file_id_list zipped with file_path_list
    para_idx,             \* the file the loop of main is at
    zh_cn_dict,           \* what process_translation returned last
    cnpack,               \* the files written under CNPack/: path -> content
    ftb_quests_lang_dir,  \* set, dir
    \* ---- compare_archives.py: main, compare_directories, generate_html_report
    cmp_in,               \* the two archives, the files they extract to, the template
    cmp_results,          \* what compare_directories returned
    report                \* the HTML report: written, and its sections

escVars == <<raw, escaped, unescaped>>
mergeVars == <<json_dir, combined_data, reconstructed_data, snbt_ready_data, output_snbt>>
splitIn == <<source_lang_file, flatten_single_lines, chapters_dir>>
splitVars == <<splitIn, lang_data, groups, task_to_quest_map, reward_to_quest_map,
               chapter_idx>>
paraIn == <<remote, source_tree>>
paraVars == <<paraIn, requests, file_list, para_idx, zh_cn_dict, cnpack,
              ftb_quests_lang_dir>>
compareVars == <<cmp_in, cmp_results, report>>
vars == <<tool, pc, escVars, mergeVars, printed, splitVars, paraVars, compareVars>>

(***************************************************************************)
(* Characters and strings                                                  *)
(***************************************************************************)
BS == "\\"
QT == "\""
NL == "\n"
SP == " "
NBSP == "~"   \* stands for U+00A0; never occurs in an input text

\* The characters of the model in code point order (Python compares strings
\* by code point).
CodePoints ==
    <<NL, SP, QT, ".", "/", "0", "1", "2", "3", "4", "5", "6", "7", "8", "9",
      "A", "B", "C", "D", "E", "F", "M", "Q", "R", "T", BS, "_",
      "a", "b", "c", "d", "e", "f", "g", "h", "i", "j", "k", "l", "m", "n",
      "o", "p", "q", "r", "s", "t", "u", "v", "w", "x", "y", "z", NBSP>>

Ord(c) == CHOOSE i \in 1..Len(CodePoints) : CodePoints[i] = c

Digits == {"0", "1", "2", "3", "4", "5", "6", "7", "8", "9"}
HexUpper == Digits \cup {"A", "B", "C", "D", "E", "F"}

DigitVal(c) == Ord(c) - Ord("0")

\* s[a..b] as Python's s[a-1:b]
Slice(s, a, b) == IF a > b THEN <<>> ELSE SubSeq(s, a, b)

Drop(s, n) == Slice(s, n + 1, Len(s))

\* str.startswith
StartsWith(s, p) == Len(p) <= Len(s) /\ SubSeq(s, 1, Len(p)) = p

\* Python's  a < b  on str: lexicographic by code point, a proper prefix first
RECURSIVE StrLess(_, _)
StrLess(a, b) ==
    IF b = <<>> THEN FALSE
    ELSE IF a = <<>> THEN TRUE
    ELSE IF a[1] # b[1] THEN Ord(a[1]) < Ord(b[1])
    ELSE StrLess(Tail(a), Tail(b))

\* Python's  sub in s
Contains(s, sub) ==
    \E i \in 0..(Len(s) - Len(sub)) : SubSeq(s, i + 1, i + Len(sub)) = sub

\* str.replace(old, new): non-overlapping occurrences, scanned left to right
RECURSIVE Replace(_, _, _)
Replace(s, old, new) ==
    IF Len(s) < Len(old) THEN s
    ELSE IF StartsWith(s, old) THEN new \o Replace(Drop(s, Len(old)), old, new)
    ELSE <<s[1]>> \o Replace(Tail(s), old, new)

\* all strings over alphabet A of length <= n
RECURSIVE StringsUpTo(_, _)
StringsUpTo(A, n) ==
    IF n = 0 THEN {<<>>}
    ELSE LET shorter == StringsUpTo(A, n - 1)
         IN  shorter \cup {<<c>> \o t : c \in A, t \in {u \in shorter : Len(u) = n - 1}}

\* sorted(names): ascending by code point
RECURSIVE SortStrings(_)
SortStrings(S) ==
    IF S = {} THEN <<>>
    ELSE LET m == CHOOSE x \in S : \A y \in S \ {x} : StrLess(x, y)
         IN  <<m>> \o SortStrings(S \ {m})

\* str.endswith
EndsWith(s, p) == Len(p) <= Len(s) /\ SubSeq(s, Len(s) - Len(p) + 1, Len(s)) = p

\* number of digits at the end of s
RECURSIVE TrailingDigits(_)
TrailingDigits(s) ==
    IF s # <<>> /\ s[Len(s)] \in Digits
    THEN 1 + TrailingDigits(SubSeq(s, 1, Len(s) - 1))
    ELSE 0

\* int(s) for a string of decimal digits
RECURSIVE StrToInt(_)
StrToInt(s) ==
    IF s = <<>> THEN 0
    ELSE 10 * StrToInt(SubSeq(s, 1, Len(s) - 1)) + DigitVal(s[Len(s)])

\* str(i) for i >= 0
RECURSIVE IntToStr(_)
IntToStr(i) ==
    IF i < 10 THEN <<CodePoints[Ord("0") + i]>>
    ELSE IntToStr(i \div 10) \o <<CodePoints[Ord("0") + (i % 10)]>>

(***************************************************************************)
(* OrderedDict: a sequence of entries with distinct keys, in insertion     *)
(* order.  A value is a string (t = "str", v = <<s>>) or a list of strings *)
(* (t = "list", v = the lines).                                            *)
(***************************************************************************)
Str(s) == [t |-> "str", v |-> <<s>>]
List(l) == [t |-> "list", v |-> l]
Entry(k, val) == [key |-> k, value |-> val]

DictKeys(d) == {d[i].key : i \in DOMAIN d}
DictHas(d, k) == \E i \in DOMAIN d : d[i].key = k
DictGet(d, k) == d[CHOOSE i \in DOMAIN d : d[i].key = k].value

\* d[k] = val: an existing key keeps its position
DictSet(d, k, val) ==
    IF DictHas(d, k)
    THEN [i \in DOMAIN d |-> IF d[i].key = k THEN Entry(k, val) ELSE d[i]]
    ELSE Append(d, Entry(k, val))

\* d.update(e)
RECURSIVE DictUpdate(_, _)
DictUpdate(d, e) ==
    IF e = <<>> THEN d
    ELSE DictUpdate(DictSet(d, e[1].key, e[1].value), Tail(e))

(***************************************************************************)
(* escape_string_for_snbt / unescape_string                                *)
(***************************************************************************)
unescape_string(s) ==
    LET s1 == Replace(s, <<BS, QT>>, <<QT>>)
    IN  Replace(s1, <<BS, BS>>, <<BS>>)

\* a slip in the order of the two replacements of escape_string_for_snbt
escape_quote_first(s) ==
    LET s1 == Replace(s, <<QT>>, <<BS, QT>>)
    IN  Replace(s1, <<BS>>, <<BS, BS>>)

escape_string_for_snbt(s) ==
    LET s1 == Replace(s, <<BS>>, <<BS, BS>>)
    IN  Replace(s1, <<QT>>, <<BS, QT>>)

(***************************************************************************)
(* merge_all_to_snbt                                                       *)
(***************************************************************************)
\* multi_line_pattern.match(key) for  ^(.*?)(\d+)$ : "." matches no line
\* break, and "$" matches at the end or before one final line break.
multi_line_pattern(key) ==
    LET core == IF key # <<>> /\ key[Len(key)] = NL
                THEN SubSeq(key, 1, Len(key) - 1) ELSE key
        n    == TrailingDigits(core)
        base == SubSeq(core, 1, Len(core) - n)
    IN  [matched     |-> n > 0 /\ \A i \in DOMAIN base : base[i] # NL,
         base_key    |-> base,
         line_number |-> StrToInt(SubSeq(core, Len(core) - n + 1, Len(core)))]

\* temp_multiline[base_key].append((line_number, value))
TempAppend(temp, base_key, line) ==
    IF \E i \in DOMAIN temp : temp[i].key = base_key
    THEN [i \in DOMAIN temp |->
            IF temp[i].key = base_key
            THEN [key |-> base_key, lines |-> Append(temp[i].lines, line)]
            ELSE temp[i]]
    ELSE Append(temp, [key |-> base_key, lines |-> <<line>>])

\* the loop over combined_data.items() with the else branch lost
RECURSIVE ScanCombined_no_else(_, _, _)
ScanCombined_no_else(d, temp, recon) ==
    IF d = <<>> THEN [temp |-> temp, recon |-> recon]
    ELSE LET m == multi_line_pattern(d[1].key)
         IN  ScanCombined_no_else(Tail(d),
                 IF m.matched
                 THEN TempAppend(temp, m.base_key,
                                 [n |-> m.line_number, text |-> d[1].value.v[1]])
                 ELSE temp,
                 recon)

\* the loop over combined_data.items()
RECURSIVE ScanCombined(_, _, _)
ScanCombined(d, temp, recon) ==
    IF d = <<>> THEN [temp |-> temp, recon |-> recon]
    ELSE LET m == multi_line_pattern(d[1].key)
         IN  IF m.matched
             THEN ScanCombined(Tail(d),
                      TempAppend(temp, m.base_key,
                                 [n |-> m.line_number, text |-> d[1].value.v[1]]),
                      recon)
             ELSE ScanCombined(Tail(d), temp, DictSet(recon, d[1].key, d[1].value))

\* the lines left in the order of their arrival
SortLines_unsorted(l) == l

\* lines_with_nums.sort(key=lambda x: x[0]): stable
RECURSIVE SortLines(_)
SortLines(l) ==
    IF l = <<>> THEN <<>>
    ELSE LET init == SortLines(SubSeq(l, 1, Len(l) - 1))
             x    == l[Len(l)]
             k    == Cardinality({i \in DOMAIN init : init[i].n <= x.n})
         IN  SubSeq(init, 1, k) \o <<x>> \o SubSeq(init, k + 1, Len(init))

\* the loop over temp_multiline.items()
RECURSIVE EmitLists(_, _)
EmitLists(temp, recon) ==
    IF temp = <<>> THEN recon
    ELSE LET sorted == SortLines(temp[1].lines)
             sorted_lines == [i \in DOMAIN sorted |-> sorted[i].text]
         IN  EmitLists(Tail(temp), DictSet(recon, temp[1].key, List(sorted_lines)))

Reconstruct(combined) ==
    LET scan == ScanCombined(combined, <<>>, <<>>)
    IN  EmitLists(scan.temp, scan.recon)

\* sorted(reconstructed_data.items()): the keys are distinct
RECURSIVE SortItems(_)
SortItems(d) ==
    IF d = <<>> THEN <<>>
    ELSE LET init == SortItems(SubSeq(d, 1, Len(d) - 1))
             x    == d[Len(d)]
             k    == Cardinality({i \in DOMAIN init : ~StrLess(x.key, init[i].key)})
         IN  SubSeq(init, 1, k) \o <<x>> \o SubSeq(init, k + 1, Len(init))

\* the loop that fills snbt_ready_data
SnbtReady(sorted_items) ==
    [i \in DOMAIN sorted_items |->
        LET val == sorted_items[i].value
        IN  Entry(sorted_items[i].key,
                  [t |-> val.t,
                   v |-> [j \in DOMAIN val.v |-> escape_string_for_snbt(val.v[j])]])]

DotJson == <<".", "j", "s", "o", "n">>
ZhCn == <<"z", "h", "_", "c", "n">>

\* the filter of os.listdir(json_dir)
IsMergeInput(name) ==
    /\ EndsWith(name, DotJson)
    /\ tool = "para2github.merge" => StartsWith(name, ZhCn)

\* json_files: the sorted names that pass the filter
JsonFiles(dir) == SortStrings({f \in DOMAIN dir.files : IsMergeInput(f)})

\* the loading loop: files that cannot be read or parsed are skipped
RECURSIVE LoadAll(_, _, _)
LoadAll(dir, names, combined) ==
    IF names = <<>> THEN combined
    ELSE LET c == dir.files[names[1]]
         IN  LoadAll(dir, Tail(names),
                     IF c.ok THEN DictUpdate(combined, c.data) ELSE combined)

Msg(kind, file) == <<kind, file>>

NoFile == [written |-> FALSE, data |-> <<>>]
NoDir == [exists |-> FALSE, files |-> <<>>]

\* MergeLoad without the "if not combined_data: return" guard
MergeLoad_no_empty_guard ==
    /\ pc = "merge_start"
    /\ IF ~json_dir.exists
       THEN /\ printed' = printed \cup {Msg("json_dir_missing", <<>>)}
            /\ combined_data' = <<>>
            /\ pc' = "returned"
       ELSE LET names == JsonFiles(json_dir)
                loaded == LoadAll(json_dir, names, <<>>)
                failed == {names[i] : i \in {j \in DOMAIN names :
                                                  ~json_dir.files[names[j]].ok}}
            IN  /\ combined_data' = loaded
                /\ printed' = printed
                       \cup {Msg("load_warning", f) : f \in failed}
                /\ pc' = "merge_loaded"
    /\ UNCHANGED <<compareVars, paraVars, tool, escVars, json_dir, reconstructed_data, snbt_ready_data,
                   output_snbt, splitVars>>

MergeLoad ==
    /\ pc = "merge_start"
    /\ IF ~json_dir.exists
       THEN /\ printed' = printed \cup {Msg("json_dir_missing", <<>>)}
            /\ combined_data' = <<>>
            /\ pc' = "returned"
       ELSE LET names == JsonFiles(json_dir)
                loaded == LoadAll(json_dir, names, <<>>)
                failed == {names[i] : i \in {j \in DOMAIN names :
                                                  ~json_dir.files[names[j]].ok}}
            IN  /\ combined_data' = loaded
                /\ printed' = printed
                       \cup {Msg("load_warning", f) : f \in failed}
                       \cup (IF loaded = <<>> THEN {Msg("no_data", <<>>)} ELSE {})
                /\ pc' = IF loaded = <<>> THEN "returned" ELSE "merge_loaded"
    /\ UNCHANGED <<compareVars, paraVars, tool, escVars, json_dir, reconstructed_data, snbt_ready_data,
                   output_snbt, splitVars>>

MergeReconstruct ==
    /\ pc = "merge_loaded"
    /\ reconstructed_data' = Reconstruct(combined_data)
    /\ snbt_ready_data' = SnbtReady(SortItems(reconstructed_data'))
    /\ pc' = "merge_ready"
    /\ UNCHANGED <<compareVars, paraVars, tool, escVars, json_dir, combined_data, output_snbt, printed,
                   splitVars>>

\* snbtlib.dumps and the write: the library may return a blank string or
\* raise, and the write may raise; otherwise the file holds snbt_ready_data.
MergeWrite ==
    /\ pc = "merge_ready"
    /\ \E outcome \in {"written", "blank", "error"} :
          /\ output_snbt' = IF outcome = "written"
                            THEN [written |-> TRUE, data |-> snbt_ready_data]
                            ELSE output_snbt
          /\ printed' = printed \cup {Msg(IF outcome = "written" THEN "merged"
                                          ELSE IF outcome = "blank" THEN "dumps_blank"
                                          ELSE "write_failed", <<>>)}
    /\ pc' = "returned"
    /\ UNCHANGED <<compareVars, paraVars, tool, escVars, json_dir, combined_data, reconstructed_data,
                   snbt_ready_data, splitVars>>

(***************************************************************************)
(* split_and_process_all                                                   *)
(***************************************************************************)
ChapterDot == <<"c", "h", "a", "p", "t", "e", "r", ".">>
QuestDot == <<"q", "u", "e", "s", "t", ".">>
TaskDot == <<"t", "a", "s", "k", ".">>
RewardDot == <<"r", "e", "w", "a", "r", "d", ".">>
ChapterGroupDot == <<"c", "h", "a", "p", "t", "e", "r", "_", "g", "r", "o", "u", "p", ".">>
RewardTableDot == <<"r", "e", "w", "a", "r", "d", "_", "t", "a", "b", "l", "e", ".">>
EnUs == <<"e", "n", "_", "u", "s", "_">>
DotSnbt == <<".", "s", "n", "b", "t">>

ChaptersFile == EnUs \o <<"c", "h", "a", "p", "t", "e", "r", "s">> \o DotJson
RewardTablesFile ==
    EnUs \o <<"r", "e", "w", "a", "r", "d", "_", "t", "a", "b", "l", "e", "s">> \o DotJson

\* the prefix table, in its insertion order
CATEGORIES_TO_FILES ==
    <<[filename |-> ChaptersFile, prefixes |-> <<ChapterGroupDot>>],
      [filename |-> RewardTablesFile, prefixes |-> <<RewardTableDot>>]>>

OTHER_ENTRIES_FILE ==
    EnUs \o <<"o", "t", "h", "e", "r", "_", "e", "n", "t", "r", "i", "e", "s">> \o DotJson

Title == <<".", "t", "i", "t", "l", "e">>
Description == <<".", "d", "e", "s", "c", "r", "i", "p", "t", "i", "o", "n">>
QuestSubtitle == <<".", "q", "u", "e", "s", "t", "_", "s", "u", "b", "t", "i", "t", "l", "e">>
QuestDesc == <<".", "q", "u", "e", "s", "t", "_", "d", "e", "s", "c">>

SORT_ORDER_CONFIG ==
    <<[prefix |-> ChapterDot, order |-> <<Title, Description>>],
      [prefix |-> QuestDot, order |-> <<Title, QuestSubtitle, QuestDesc>>]>>

\* the list branch of the flattening loop: key1, key2, ... for the lines
RECURSIVE FlattenLines(_, _, _, _)
FlattenLines(flat, key, lines, i) ==
    IF i > Len(lines) THEN flat
    ELSE FlattenLines(DictSet(flat, key \o IntToStr(i), Str(unescape_string(lines[i]))),
                      key, lines, i + 1)

\* the flattening loop over snbt_data.items()
RECURSIVE Flatten(_, _, _)
Flatten(snbt_data, flat, flatten_single) ==
    IF snbt_data = <<>> THEN flat
    ELSE LET key == snbt_data[1].key
             val == snbt_data[1].value
             next ==
                 IF val.t = "list"
                 THEN IF flatten_single /\ Len(val.v) = 1
                      THEN DictSet(flat, key, Str(unescape_string(val.v[1])))
                      ELSE FlattenLines(flat, key, val.v, 1)
                 ELSE DictSet(flat, key, Str(unescape_string(val.v[1])))
         IN  Flatten(Tail(snbt_data), next, flatten_single)

NoGroups ==
    [chapters_lang_data |-> <<>>, quests_data |-> <<>>, tasks_data |-> <<>>,
     rewards_data |-> <<>>, other_data |-> <<>>,
     categorized_data |-> [i \in DOMAIN CATEGORIES_TO_FILES |-> <<>>]]

\* the first table row with a prefix of the key, 0 when there is none
TableMatch(key) ==
    LET hits == {i \in DOMAIN CATEGORIES_TO_FILES :
                    \E j \in DOMAIN CATEGORIES_TO_FILES[i].prefixes :
                        StartsWith(key, CATEGORIES_TO_FILES[i].prefixes[j])}
    IN  IF hits = {} THEN 0 ELSE CHOOSE i \in hits : \A j \in hits : i <= j

\* the classification loop body with the final test "if not assigned" lost
CategorizeEntry_always_other(g, e) ==
    LET g1 ==
            IF StartsWith(e.key, ChapterDot)
            THEN [g EXCEPT !.chapters_lang_data = DictSet(@, e.key, e.value)]
            ELSE IF StartsWith(e.key, QuestDot)
            THEN [g EXCEPT !.quests_data = DictSet(@, e.key, e.value)]
            ELSE IF StartsWith(e.key, TaskDot)
            THEN [g EXCEPT !.tasks_data = DictSet(@, e.key, e.value)]
            ELSE IF StartsWith(e.key, RewardDot)
            THEN [g EXCEPT !.rewards_data = DictSet(@, e.key, e.value)]
            ELSE IF TableMatch(e.key) # 0
            THEN [g EXCEPT !.categorized_data[TableMatch(e.key)] =
                               DictSet(@, e.key, e.value)]
            ELSE g
    IN  [g1 EXCEPT !.other_data = DictSet(@, e.key, e.value)]

\* the body of the classification loop for one entry
CategorizeEntry(g, e) ==
    LET hard == StartsWith(e.key, ChapterDot) \/ StartsWith(e.key, QuestDot)
                \/ StartsWith(e.key, TaskDot) \/ StartsWith(e.key, RewardDot)
        assigned == hard \/ TableMatch(e.key) # 0
        g1 ==
            IF StartsWith(e.key, ChapterDot)
            THEN [g EXCEPT !.chapters_lang_data = DictSet(@, e.key, e.value)]
            ELSE IF StartsWith(e.key, QuestDot)
            THEN [g EXCEPT !.quests_data = DictSet(@, e.key, e.value)]
            ELSE IF StartsWith(e.key, TaskDot)
            THEN [g EXCEPT !.tasks_data = DictSet(@, e.key, e.value)]
            ELSE IF StartsWith(e.key, RewardDot)
            THEN [g EXCEPT !.rewards_data = DictSet(@, e.key, e.value)]
            ELSE IF TableMatch(e.key) # 0
            THEN [g EXCEPT !.categorized_data[TableMatch(e.key)] =
                               DictSet(@, e.key, e.value)]
            ELSE g
    IN  IF ~assigned
        THEN [g1 EXCEPT !.other_data = DictSet(@, e.key, e.value)]
        ELSE g1

\* the classification loop over lang_data.items()
RECURSIVE Categorize(_, _)
Categorize(flat, g) ==
    IF flat = <<>> THEN g
    ELSE Categorize(Tail(flat), CategorizeEntry(g, flat[1]))

\* json.dump(data, f) into output_dir
WriteJson(dir, name, data) ==
    [exists |-> TRUE,
     files  |-> [f \in DOMAIN dir.files \cup {name} |->
                    IF f = name THEN [ok |-> TRUE, data |-> data] ELSE dir.files[f]]]

\* the loop that writes the non-empty table groups
RECURSIVE WriteCategorized(_, _, _)
WriteCategorized(dir, g, i) ==
    IF i > Len(CATEGORIES_TO_FILES) THEN dir
    ELSE WriteCategorized(
             IF g.categorized_data[i] # <<>>
             THEN WriteJson(dir, CATEGORIES_TO_FILES[i].filename, g.categorized_data[i])
             ELSE dir,
             g, i + 1)

(***************************************************************************)
(* create_sort_key                                                         *)
(***************************************************************************)
\* the length of the run of [0-9A-F] that starts at s[p]
RECURSIVE HexRun(_, _)
HexRun(s, p) ==
    IF p <= Len(s) /\ s[p] \in HexUpper THEN 1 + HexRun(s, p + 1) ELSE 0

\* re.match(r'^<ns>([0-9A-F]+)', key), ns with its dot
IdMatch(key, ns) ==
    LET n == IF StartsWith(key, ns) THEN HexRun(key, Len(ns) + 1) ELSE 0
    IN  [matched |-> n > 0,
         id      |-> SubSeq(key, Len(ns) + 1, Len(ns) + n),
         end     |-> Len(ns) + n]

\* re.match(r'^(?:a|b|...)\.[0-9A-F]+\.', key) for the namespaces nss:
\* the length of group(0), 0 when there is no match
IdDotMatch(key, nss) ==
    LET hits == {ns \in nss : IdMatch(key, ns).matched
                              /\ IdMatch(key, ns).end < Len(key)
                              /\ key[IdMatch(key, ns).end + 1] = "."}
    IN  IF hits = {} THEN 0
        ELSE IdMatch(key, CHOOSE ns \in hits : TRUE).end + 1

\* the (.*) of id_match: up to the first line break
RECURSIVE UpToLineBreak(_)
UpToLineBreak(s) ==
    IF s = <<>> \/ s[1] = NL THEN <<>> ELSE <<s[1]>> \o UpToLineBreak(Tail(s))

MapGet(m, k, default) == IF k \in DOMAIN m THEN m[k] ELSE default
MapSet(m, k, val) == [x \in DOMAIN m \cup {k} |-> IF x = k THEN val ELSE m[x]]

ConfigOrder(config, prefix) ==
    config[CHOOSE i \in DOMAIN config : config[i].prefix = prefix].order

\* internal_type_priority with the ranks of task and reward exchanged
TypePriority_swapped(ns) ==
    IF ns = TaskDot THEN 2 ELSE IF ns = RewardDot THEN 1 ELSE 0

\* internal_type_priority of a key whose id was matched: 0 quest or chapter,
\* 1 task, 2 reward
TypePriority(ns) ==
    IF ns = TaskDot THEN 1 ELSE IF ns = RewardDot THEN 2 ELSE 0

\* the natural sort parts with the digits left in the text
NaturalParts_unsplit(key) ==
    LET len1 == IdDotMatch(key, {ChapterDot, QuestDot, TaskDot, RewardDot})
    IN  [non_numeric_part |-> IF len1 = 0 THEN <<>> ELSE UpToLineBreak(Drop(key, len1)),
         numeric_part     |-> 0]

\* step 3 of create_sort_key: (non_numeric_part, numeric_part)
NaturalParts(key) ==
    LET len1 == IdDotMatch(key, {ChapterDot, QuestDot, TaskDot, RewardDot})
        key_suffix_for_natural_sort ==
            IF len1 = 0 THEN <<>> ELSE UpToLineBreak(Drop(key, len1))
        suffix_match == multi_line_pattern(key_suffix_for_natural_sort)
    IN  [non_numeric_part |-> IF suffix_match.matched THEN suffix_match.base_key
                              ELSE key_suffix_for_natural_sort,
         numeric_part     |-> IF suffix_match.matched THEN suffix_match.line_number
                              ELSE 0]

\* is_chapter_key left at its default
IsChapterKey_default(ns, hit) == 1

\* step 1 of create_sort_key: is_chapter_key is 0 for a key of namespace
\* "chapter." whose id the pattern matched, else the default 1
IsChapterKey(ns, hit) == IF hit /\ ns = ChapterDot THEN 0 ELSE 1

\* step 2 of create_sort_key with the look-up in the order list lost
CustomPriority_unranked(key, config, key_prefix_for_config) == 99

\* step 2 of create_sort_key: custom_priority
CustomPriority(key, config, key_prefix_for_config) ==
    IF key_prefix_for_config # <<>>
       /\ \E i \in DOMAIN config : config[i].prefix = key_prefix_for_config
    THEN LET suffix_order == ConfigOrder(config, key_prefix_for_config)
             len0 == IdDotMatch(key, {ChapterDot, QuestDot})
             key_suffix == Drop(key, len0)
             found == {i \in DOMAIN suffix_order :
                          StartsWith(<<".">> \o key_suffix, suffix_order[i])}
         IN  IF len0 = 0 \/ found = {} THEN Len(suffix_order)
             ELSE (CHOOSE i \in found : \A j \in found : i <= j) - 1
    ELSE 99

\* the sort tuple of one key
create_sort_key(key, config, t2q, r2q) ==
    LET ns == IF StartsWith(key, ChapterDot) THEN ChapterDot
              ELSE IF StartsWith(key, QuestDot) THEN QuestDot
              ELSE IF StartsWith(key, TaskDot) THEN TaskDot
              ELSE IF StartsWith(key, RewardDot) THEN RewardDot
              ELSE <<>>
        m == IdMatch(key, ns)
        hit == ns # <<>> /\ m.matched
        is_chapter_key == IsChapterKey(ns, hit)
        quest_group_id ==
            IF ~hit THEN key
            ELSE IF ns = TaskDot THEN MapGet(t2q, m.id, m.id)
            ELSE IF ns = RewardDot THEN MapGet(r2q, m.id, m.id)
            ELSE m.id
        internal_type_priority == IF ~hit THEN 99 ELSE TypePriority(ns)
        key_prefix_for_config ==
            IF hit /\ ns \in {ChapterDot, QuestDot} THEN ns ELSE <<>>
        custom_priority == CustomPriority(key, config, key_prefix_for_config)
        natural == NaturalParts(key)
    IN  [is_chapter_key         |-> is_chapter_key,
         quest_group_id         |-> quest_group_id,
         internal_type_priority |-> internal_type_priority,
         custom_priority        |-> custom_priority,
         non_numeric_part       |-> natural.non_numeric_part,
         numeric_part           |-> natural.numeric_part]

\* Python's  a < b  on the sort tuples
TupleLess(a, b) ==
    IF a.is_chapter_key # b.is_chapter_key THEN a.is_chapter_key < b.is_chapter_key
    ELSE IF a.quest_group_id # b.quest_group_id
    THEN StrLess(a.quest_group_id, b.quest_group_id)
    ELSE IF a.internal_type_priority # b.internal_type_priority
    THEN a.internal_type_priority < b.internal_type_priority
    ELSE IF a.custom_priority # b.custom_priority
    THEN a.custom_priority < b.custom_priority
    ELSE IF a.non_numeric_part # b.non_numeric_part
    THEN StrLess(a.non_numeric_part, b.non_numeric_part)
    ELSE a.numeric_part < b.numeric_part

\* sorted(chapter_output_content.items(), key=create_sort_key): stable
RECURSIVE SortChapter(_, _, _)
SortChapter(d, t2q, r2q) ==
    IF d = <<>> THEN <<>>
    ELSE LET init == SortChapter(SubSeq(d, 1, Len(d) - 1), t2q, r2q)
             x    == d[Len(d)]
             kx   == create_sort_key(x.key, SORT_ORDER_CONFIG, t2q, r2q)
             k    == Cardinality({i \in DOMAIN init :
                        ~TupleLess(kx, create_sort_key(init[i].key, SORT_ORDER_CONFIG,
                                                       t2q, r2q))})
         IN  SubSeq(init, 1, k) \o <<x>> \o SubSeq(init, k + 1, Len(init))

(***************************************************************************)
(* process_chapter_quests                                                  *)
(***************************************************************************)
\* the tasks (or rewards) of one quest entered into a map
RECURSIVE MapChildren(_, _, _)
MapChildren(m, ids, quest_id) ==
    IF ids = <<>> THEN m
    ELSE MapChildren(IF ids[1] # <<>> THEN MapSet(m, ids[1], quest_id) ELSE m,
                     Tail(ids), quest_id)

\* the quests of one chapter document entered into the two maps
RECURSIVE MapQuests(_, _)
MapQuests(maps, quests) ==
    IF quests = <<>> THEN maps
    ELSE LET q == quests[1]
         IN  MapQuests(
                 IF q.id = <<>> THEN maps
                 ELSE [task   |-> MapChildren(maps.task, q.tasks, q.id),
                       reward |-> MapChildren(maps.reward, q.rewards, q.id)],
                 Tail(quests))

\* the first loop over os.listdir(chapters_dir)
RECURSIVE BuildMaps(_, _)
BuildMaps(files, maps) ==
    IF files = <<>> THEN maps
    ELSE LET f == files[1]
         IN  BuildMaps(Tail(files),
                       IF EndsWith(f.name, DotSnbt) /\ f.ok
                       THEN MapQuests(maps, f.doc.quests)
                       ELSE maps)

\* for key, value in d.items(): if key.startswith(prefix): out[key] = value
RECURSIVE Collect(_, _, _)
Collect(out, d, prefix) ==
    IF d = <<>> THEN out
    ELSE Collect(IF StartsWith(d[1].key, prefix)
                 THEN DictSet(out, d[1].key, d[1].value) ELSE out,
                 Tail(d), prefix)

\* the entries of the tasks (ns = "task.") or rewards of one quest
RECURSIVE CollectChildren(_, _, _, _)
CollectChildren(out, d, ns, ids) ==
    IF ids = <<>> THEN out
    ELSE CollectChildren(
             IF ids[1] = <<>> THEN out
             ELSE Collect(out, d, ns \o ids[1] \o <<".">>),
             d, ns, Tail(ids))

\* the loop over the quests of one chapter
RECURSIVE CollectQuests(_, _, _)
CollectQuests(out, g, quests) ==
    IF quests = <<>> THEN out
    ELSE LET q == quests[1]
             o1 == Collect(out, g.quests_data, QuestDot \o q.id \o <<".">>)
             o2 == CollectChildren(o1, g.tasks_data, TaskDot, q.tasks)
             o3 == CollectChildren(o2, g.rewards_data, RewardDot, q.rewards)
         IN  CollectQuests(IF q.id = <<>> THEN out ELSE o3, g, Tail(quests))

\* chapter_output_content of one chapter document, before the sort
ChapterContent(doc, g) ==
    CollectQuests(Collect(<<>>, g.chapters_lang_data, ChapterDot \o doc.id), g, doc.quests)

\* f"en_us_{filename.removesuffix('.snbt')}.json"
OutputFilename(filename) ==
    EnUs \o (IF EndsWith(filename, DotSnbt)
             THEN SubSeq(filename, 1, Len(filename) - Len(DotSnbt))
             ELSE filename) \o DotJson

(***************************************************************************)
(* The steps of split_and_process_all                                      *)
(***************************************************************************)
\* lines 79-112: create the output directory, load and flatten the source
SplitLoad ==
    /\ pc = "split_start"
    /\ json_dir' = [exists |-> TRUE, files |-> json_dir.files]
    /\ IF source_lang_file.ok
       THEN /\ lang_data' = Flatten(source_lang_file.data, <<>>, flatten_single_lines)
            /\ printed' = printed
            /\ pc' = "split_flat"
       ELSE /\ lang_data' = lang_data
            /\ printed' = printed \cup {Msg("source_failed", <<>>)}
            /\ pc' = "split_done"
    /\ UNCHANGED <<compareVars, paraVars, tool, escVars, combined_data, reconstructed_data, snbt_ready_data,
                   output_snbt, splitIn, groups, task_to_quest_map,
                   reward_to_quest_map, chapter_idx>>

\* lines 114-146
SplitCategorize ==
    /\ pc = "split_flat"
    /\ groups' = Categorize(lang_data, NoGroups)
    /\ pc' = "split_categorized"
    /\ UNCHANGED <<compareVars, paraVars, tool, escVars, mergeVars, printed, splitIn, lang_data,
                   task_to_quest_map, reward_to_quest_map, chapter_idx>>

\* lines 148-161
SplitWriteFixed ==
    /\ pc = "split_categorized"
    /\ LET d1 == WriteCategorized(json_dir, groups, 1)
       IN  json_dir' = IF groups.other_data # <<>>
                       THEN WriteJson(d1, OTHER_ENTRIES_FILE, groups.other_data)
                       ELSE d1
    /\ pc' = "split_fixed_written"
    /\ UNCHANGED <<compareVars, paraVars, tool, escVars, combined_data, reconstructed_data, snbt_ready_data,
                   output_snbt, printed, splitVars>>

\* lines 255-278: return when there is no chapters directory, else build the maps
SplitBuildMaps ==
    /\ pc = "split_fixed_written"
    /\ IF ~chapters_dir.exists
       THEN /\ pc' = "split_done"
            /\ UNCHANGED <<task_to_quest_map, reward_to_quest_map, chapter_idx, printed>>
       ELSE LET maps == BuildMaps(chapters_dir.files, [task |-> <<>>, reward |-> <<>>])
            IN  /\ task_to_quest_map' = maps.task
                /\ reward_to_quest_map' = maps.reward
                /\ printed' = printed \cup
                       {Msg("map_warning", chapters_dir.files[i].name) :
                          i \in {j \in DOMAIN chapters_dir.files :
                                   /\ EndsWith(chapters_dir.files[j].name, DotSnbt)
                                   /\ ~chapters_dir.files[j].ok}}
                /\ chapter_idx' = 1
                /\ pc' = "split_chapters"
    /\ UNCHANGED <<compareVars, paraVars, tool, escVars, mergeVars, splitIn, lang_data, groups>>

\* lines 280-343: one pass of the second loop
SplitChapter ==
    /\ pc = "split_chapters"
    /\ chapter_idx <= Len(chapters_dir.files)
    /\ LET f == chapters_dir.files[chapter_idx]
           content == ChapterContent(f.doc, groups)
           sorted_items == SortChapter(content, task_to_quest_map, reward_to_quest_map)
       IN  IF ~EndsWith(f.name, DotSnbt)
           THEN UNCHANGED <<json_dir, printed>>
           ELSE IF ~f.ok
           THEN /\ printed' = printed \cup {Msg("chapter_error", f.name)}
                /\ UNCHANGED json_dir
           ELSE IF f.doc.id = <<>> \/ content = <<>>
           THEN UNCHANGED <<json_dir, printed>>
           ELSE /\ json_dir' = WriteJson(json_dir, OutputFilename(f.name), sorted_items)
                /\ printed' = printed \cup {Msg("chapter_written", f.name)}
    /\ chapter_idx' = chapter_idx + 1
    /\ UNCHANGED <<compareVars, paraVars, tool, pc, escVars, combined_data, reconstructed_data,
                   snbt_ready_data, output_snbt, splitIn, lang_data, groups,
                   task_to_quest_map, reward_to_quest_map>>

\* the second loop is over: split_and_process_all returns
SplitFinish ==
    /\ pc = "split_chapters"
    /\ chapter_idx > Len(chapters_dir.files)
    /\ pc' = "split_done"
    /\ UNCHANGED <<compareVars, paraVars, tool, escVars, mergeVars, printed, splitVars>>

\* main_cli: "merge" run on the directory "split" has filled
RunMerge ==
    /\ tool = "LangSpliter.split"
    /\ pc = "split_done"
    /\ tool' = "LangSpliter.merge"
    /\ pc' = "merge_start"
    /\ UNCHANGED <<compareVars, paraVars, escVars, mergeVars, printed, splitVars>>

\* ---- bounds
MaxStrLen == 4
MaxFileEntries == 2
MaxSourceEntries == 2

\* the merge variables before merge_all_to_snbt has run
MergeIdle ==
    /\ json_dir = NoDir
    /\ combined_data = <<>>
    /\ reconstructed_data = <<>>
    /\ snbt_ready_data = <<>>
    /\ output_snbt = NoFile

\* the split variables of a run that does not split
SplitIdle ==
    /\ source_lang_file = [ok |-> FALSE, data |-> <<>>]
    /\ flatten_single_lines = FALSE
    /\ chapters_dir = [exists |-> FALSE, files |-> <<>>]
    /\ lang_data = <<>>
    /\ groups = NoGroups
    /\ task_to_quest_map = <<>>
    /\ reward_to_quest_map = <<>>
    /\ chapter_idx = 0

EscIdle == raw = <<>> /\ escaped = <<>> /\ unescaped = <<>>

NoResults == [added |-> <<>>, removed |-> <<>>, modified |-> <<>>, identical |-> <<>>]
NoReport == [written |-> FALSE, sections |-> NoResults]

\* the comparison's variables of a run that does not compare archives
CompareIdle ==
    /\ cmp_in = [archives |-> <<>>, files |-> <<>>, template |-> FALSE]
    /\ cmp_results = NoResults
    /\ report = NoReport

\* the synchroniser's variables of a run that does not synchronise
ParaIdle ==
    /\ remote = [list |-> [ok |-> FALSE, json |-> <<>>], files |-> <<>>]
    /\ source_tree = <<>>
    /\ requests = <<>>
    /\ file_list = <<>>
    /\ para_idx = 0
    /\ zh_cn_dict = <<>>
    /\ cnpack = <<>>
    /\ ftb_quests_lang_dir = [set |-> FALSE, dir |-> <<>>]

EscAlphabet == {BS, QT, "a"}

InitEscape ==
    /\ tool = "escape"
    /\ pc = "start"
    /\ raw \in StringsUpTo(EscAlphabet, MaxStrLen)
    /\ escaped = <<>>
    /\ unescaped = <<>>
    /\ MergeIdle
    /\ SplitIdle
    /\ ParaIdle
    /\ CompareIdle
    /\ printed = {}

Escape ==
    /\ tool = "escape" /\ pc = "start"
    /\ escaped' = escape_string_for_snbt(raw)
    /\ pc' = "escaped"
    /\ UNCHANGED <<compareVars, paraVars, tool, raw, unescaped, mergeVars, printed, splitVars>>

Unescape ==
    /\ tool = "escape" /\ pc = "escaped"
    /\ unescaped' = unescape_string(escaped)
    /\ pc' = "unescaped"
    /\ UNCHANGED <<compareVars, paraVars, tool, raw, escaped, mergeVars, printed, splitVars>>

NextEscape == Escape \/ Unescape

SpecEscape == InitEscape /\ [][NextEscape]_vars

\* C2: unescape_string(escape_string_for_snbt(s)) = s for every string s over
\* backslash, double quote and an ordinary character.
C2_EscapeInverse == pc = "unescaped" => unescaped = raw

\* a string holding both a backslash and a quote has gone through both functions
C2_Witness ==
    /\ pc = "unescaped"
    /\ \E i, j \in 1..Len(raw) : raw[i] = BS /\ raw[j] = QT /\ i < j
    /\ Len(escaped) > Len(raw)

(***************************************************************************)
(* merge_all_to_snbt on a directory of JSON files                          *)
(***************************************************************************)
FileA == <<"z", "h", "_", "c", "n", "_", "a", ".", "j", "s", "o", "n">>
FileB == <<"e", "n", "_", "u", "s", "_", "b", ".", "j", "s", "o", "n">>
FileTxt == <<"z", "h", "_", "c", "n", ".", "t", "x", "t">>

\* k, q, k1, k2, k10 and "k1\n"
MergeKeyPool ==
    {<<"k">>, <<"q">>, <<"k", "1">>, <<"k", "2">>, <<"k", "1", "0">>, <<"k", "1", NL>>}

MergeValuePool == {<<"a">>, <<"b", QT, BS>>}

\* the OrderedDicts of exactly n entries with keys of K and string values of V
RECURSIVE DictsOfLen(_, _, _)
DictsOfLen(K, V, n) ==
    IF n = 0 THEN {<<>>}
    ELSE UNION {{Append(d, Entry(k, Str(val))) : k \in K \ DictKeys(d), val \in V}
                : d \in DictsOfLen(K, V, n - 1)}

DictsUpTo(K, V, n) == UNION {DictsOfLen(K, V, i) : i \in 0..n}

Unreadable == [ok |-> FALSE, data |-> <<>>]
Readable(d) == [ok |-> TRUE, data |-> d]

\* the directory listings: zh_cn_a.json and en_us_b.json are each absent,
\* unreadable or a JSON object; zh_cn.txt is always there and is no JSON file
MergeListings ==
    LET A == {Unreadable}
             \cup {Readable(d) : d \in DictsUpTo(MergeKeyPool, MergeValuePool, MaxFileEntries)}
        B == {Unreadable}
             \cup {Readable(d) : d \in DictsUpTo(MergeKeyPool, MergeValuePool, 1)}
        txt == Readable(<<Entry(<<"t">>, Str(<<"a">>))>>)
    IN  {[f \in {FileTxt} |-> txt]}
        \cup {[f \in {FileTxt, FileA} |-> IF f = FileA THEN a ELSE txt] : a \in A}
        \cup {[f \in {FileTxt, FileB} |-> IF f = FileB THEN b ELSE txt] : b \in B}
        \cup {[f \in {FileTxt, FileA, FileB} |->
                 IF f = FileA THEN a ELSE IF f = FileB THEN b ELSE txt]
              : a \in A, b \in B}

InitMerge ==
    /\ tool \in {"LangSpliter.merge", "para2github.merge"}
    /\ pc = "merge_start"
    /\ EscIdle
    /\ json_dir \in {NoDir} \cup {[exists |-> TRUE, files |-> f] : f \in MergeListings}
    /\ combined_data = <<>>
    /\ reconstructed_data = <<>>
    /\ snbt_ready_data = <<>>
    /\ output_snbt = NoFile
    /\ SplitIdle
    /\ ParaIdle
    /\ CompareIdle
    /\ printed = {}

NextMerge == MergeLoad \/ MergeReconstruct \/ MergeWrite

SpecMerge == InitMerge /\ [][NextMerge]_vars

EndsInDigit(key) == key # <<>> /\ key[Len(key)] \in Digits

Reconstructed == pc = "merge_ready" \/ (pc = "returned" /\ snbt_ready_data # <<>>)

\* C3 as stated: when no key of the input flat mapping ends in a digit, the
\* mapping handed to the serializer has the same keys and, for every key, the
\* same value as the input.
C3_Original ==
    (Reconstructed /\ \A k \in DictKeys(combined_data) : ~EndsInDigit(k))
    => /\ DictKeys(snbt_ready_data) = DictKeys(combined_data)
       /\ \A k \in DictKeys(combined_data) :
             DictGet(snbt_ready_data, k) = DictGet(combined_data, k)

\* C3 amended: when no key of the input matches the multi-line pattern (no key
\* ends in a digit, or in a digit followed by one final line break), the
\* regrouped mapping has the input's keys and values, and the mapping handed to
\* the serializer has the same keys, sorted, each with the escaped input value
\* (the same value when it holds no backslash and no double quote).
C3_ReconstructFlat ==
    (Reconstructed /\ \A k \in DictKeys(combined_data) : ~multi_line_pattern(k).matched)
    => /\ DictKeys(snbt_ready_data) = DictKeys(combined_data)
       /\ Len(snbt_ready_data) = Len(combined_data)
       /\ reconstructed_data = combined_data
       /\ \A k \in DictKeys(combined_data) :
             LET s == DictGet(combined_data, k).v[1]
             IN  /\ DictGet(snbt_ready_data, k) = Str(escape_string_for_snbt(s))
                 /\ (\A i \in DOMAIN s : s[i] \notin {BS, QT})
                        => DictGet(snbt_ready_data, k) = Str(s)
       /\ \A i, j \in DOMAIN snbt_ready_data :
             i < j => StrLess(snbt_ready_data[i].key, snbt_ready_data[j].key)

\* two plain keys loaded in descending order, one value with a quote and a
\* backslash, have been reconstructed
C3_Witness ==
    /\ Reconstructed
    /\ Len(combined_data) = 2
    /\ \A k \in DictKeys(combined_data) : ~multi_line_pattern(k).matched
    /\ StrLess(combined_data[2].key, combined_data[1].key)
    /\ \E k \in DictKeys(combined_data) : DictGet(combined_data, k) = Str(<<"b", QT, BS>>)

\* C10: whenever reconstruction yields zero entries, merge_all_to_snbt returns
\* without writing the output SNBT file.
C10_EmptyNotWritten ==
    (pc \in {"merge_ready", "returned"} /\ reconstructed_data = <<>>)
    => ~output_snbt.written

\* the directory holds JSON files but nothing could be loaded from them: the
\* run has returned with the error message and without the output file
C10_Witness ==
    /\ pc = "returned"
    /\ json_dir.exists
    /\ JsonFiles(json_dir) # <<>>
    /\ combined_data = <<>>
    /\ reconstructed_data = <<>>
    /\ Msg("no_data", <<>>) \in printed
    /\ ~output_snbt.written

(***************************************************************************)
(* "split" on a source language file and a chapters directory, followed by *)
(* "merge" on the directory it has filled                                  *)
(***************************************************************************)
IdAB == <<"A", "B">>
IdCD == <<"C", "D">>
IdEF == <<"E", "F">>
Id12 == <<"1", "2">>
Id34 == <<"3", "4">>
Id56 == <<"5", "6">>
IdC1 == <<"C", "1">>
IdQ1 == <<"Q", "1">>
IdT1 == <<"T", "1">>
IdR1 == <<"R", "1">>

Key(ns, id, field) == ns \o id \o field

\* chapter AB with quest CD, its task EF and its reward 12: upper-case hex ids
DocHex ==
    [id |-> IdAB,
     quests |-> <<[id |-> IdCD, tasks |-> <<IdEF>>, rewards |-> <<Id12>>]>>]

\* chapter C1 with quest Q1, its task T1 and its reward R1
DocQ1 ==
    [id |-> IdC1,
     quests |-> <<[id |-> IdQ1, tasks |-> <<IdT1>>, rewards |-> <<IdR1>>]>>]

\* a chapter document without id: quest 34 with task 56, and a quest without id
DocNoId ==
    [id |-> <<>>,
     quests |-> <<[id |-> Id34, tasks |-> <<Id56>>, rewards |-> <<>>],
                  [id |-> <<>>, tasks |-> <<IdT1>>, rewards |-> <<>>]>>]

\* chapter EF with quest CD: the chapter's id is above its quest's
DocEF == [id |-> IdEF, quests |-> <<[id |-> IdCD, tasks |-> <<>>, rewards |-> <<>>]>>]

\* chapter Q1, an id that is no run of upper-case hex digits, with quest 34
\* and its task 56
DocChapterQ1 ==
    [id |-> IdQ1, quests |-> <<[id |-> Id34, tasks |-> <<Id56>>, rewards |-> <<>>]>>]

NoDoc == [id |-> <<>>, quests |-> <<>>]

ChapterFile(name, doc) == [name |-> name, ok |-> TRUE, doc |-> doc]
BrokenFile(name) == [name |-> name, ok |-> FALSE, doc |-> NoDoc]

FileASnbt == <<"a">> \o DotSnbt
FileBSnbt == <<"b">> \o DotSnbt
FileReadme == <<"r", "e", "a", "d", "m", "e">>

NoChaptersDir == [exists |-> FALSE, files |-> <<>>]
ChaptersDir(files) == [exists |-> TRUE, files |-> files]

LineA == <<"a">>
LineB == <<"b">>
LineQuoted == <<"c", BS, QT>>

\* entries that exercise the flattening and the classification
FlattenPool ==
    {Entry(<<"k">>, Str(LineA)),
     Entry(<<"k">>, List(<<LineA>>)),
     Entry(<<"k">>, List(<<LineQuoted, LineB>>)),
     Entry(<<"k", "1">>, Str(LineB)),
     Entry(<<"k", "1">>, List(<<LineA, LineB>>)),
     Entry(ChapterGroupDot \o <<"g">>, Str(LineQuoted)),
     Entry(RewardTableDot \o <<"r">>, List(<<LineA>>)),
     Entry(Key(ChapterDot, IdAB, Title), Str(LineA)),
     Entry(Key(QuestDot, IdCD, QuestDesc), List(<<LineA, LineB>>)),
     Entry(Key(TaskDot, IdEF, Title), Str(LineA)),
     Entry(Key(RewardDot, Id12, Title), List(<<LineA>>))}

\* keys of chapter AB, quest CD, task EF, reward 12 and task 56
HexSortKeys ==
    {Key(ChapterDot, IdAB, Title),
     Key(ChapterDot, IdAB, Description),
     Key(QuestDot, IdCD, Title),
     Key(QuestDot, IdCD, QuestDesc \o <<"2">>),
     Key(QuestDot, IdCD, QuestDesc \o <<"1", "0">>),
     Key(QuestDot, IdCD, <<".", "z">>),
     Key(QuestDot, IdCD, <<".", "a">>),
     Key(TaskDot, IdEF, <<".", "x", NL, "2">>),
     Key(TaskDot, IdEF, <<".", "x", NL, "1", "0">>),
     Key(TaskDot, IdEF, Title),
     Key(RewardDot, Id12, Title),
     Key(TaskDot, Id56, Title)}

\* keys of quest Q1, task T1 and reward R1
Q1SortKeys ==
    {Key(QuestDot, IdQ1, Title),
     Key(QuestDot, IdQ1, QuestDesc \o <<"2">>),
     Key(QuestDot, IdQ1, QuestDesc \o <<"1", "0">>),
     Key(QuestDot, IdQ1, <<".", "a">>),
     Key(TaskDot, IdT1, Title),
     Key(RewardDot, IdR1, Title)}

\* keys of chapters EF and Q1 and of their quests CD and 34
RankSortKeys ==
    {Key(ChapterDot, IdEF, Title),
     Key(ChapterDot, IdQ1, Title),
     Key(QuestDot, IdCD, Title),
     Key(QuestDot, IdCD, <<".", "a">>),
     Key(TaskDot, Id56, Title)}

PoolOf(keys) == {Entry(k, Str(LineA)) : k \in keys}

\* entries that exercise the sorter
SortPool == PoolOf(HexSortKeys \cup Q1SortKeys \cup RankSortKeys)

\* the OrderedDicts of exactly n entries of the pool, with distinct keys
RECURSIVE SourcesOfLen(_, _)
SourcesOfLen(pool, n) ==
    IF n = 0 THEN {<<>>}
    ELSE UNION {{Append(d, e) : e \in {x \in pool : x.key \notin DictKeys(d)}}
                : d \in SourcesOfLen(pool, n - 1)}

SourcesUpTo(pool, n) == UNION {SourcesOfLen(pool, i) : i \in 0..n}

FlattenListings == {NoChaptersDir, ChaptersDir(<<ChapterFile(FileASnbt, DocHex)>>)}

HexListings ==
    {ChaptersDir(<<ChapterFile(FileASnbt, DocHex)>>),
     ChaptersDir(<<ChapterFile(FileASnbt, DocHex), ChapterFile(FileBSnbt, DocNoId)>>),
     ChaptersDir(<<BrokenFile(FileBSnbt), ChapterFile(FileReadme, NoDoc),
                   ChapterFile(FileASnbt, DocHex)>>)}

Q1Listings == {ChaptersDir(<<ChapterFile(FileASnbt, DocQ1)>>)}

RankListings ==
    {ChaptersDir(<<ChapterFile(FileASnbt, DocEF), ChapterFile(FileBSnbt, DocChapterQ1)>>)}

SortListings == HexListings \cup Q1Listings \cup RankListings

\* the runs of the sorter: the keys of a family of ids with the chapter
\* documents that name those ids
SortRuns ==
    {[keys |-> HexSortKeys, listings |-> HexListings],
     [keys |-> Q1SortKeys, listings |-> Q1Listings],
     [keys |-> RankSortKeys, listings |-> RankListings]}

InitSplit ==
    /\ tool = "LangSpliter.split"
    /\ pc = "split_start"
    /\ EscIdle
    /\ MergeIdle
    /\ ParaIdle
    /\ CompareIdle
    /\ printed = {}
    /\ \/ /\ source_lang_file \in
                {[ok |-> FALSE, data |-> <<>>]}
                \cup {[ok |-> TRUE, data |-> d]
                      : d \in SourcesUpTo(FlattenPool, MaxSourceEntries)}
          /\ flatten_single_lines \in BOOLEAN
          /\ chapters_dir \in FlattenListings
       \/ \E run \in SortRuns :
             /\ source_lang_file \in
                   {[ok |-> TRUE, data |-> d]
                    : d \in SourcesUpTo(PoolOf(run.keys), MaxSourceEntries)}
             /\ flatten_single_lines = FALSE
             /\ chapters_dir \in run.listings
    /\ lang_data = <<>>
    /\ groups = NoGroups
    /\ task_to_quest_map = <<>>
    /\ reward_to_quest_map = <<>>
    /\ chapter_idx = 0

NextSplit ==
    \/ SplitLoad \/ SplitCategorize \/ SplitWriteFixed \/ SplitBuildMaps
    \/ SplitChapter \/ SplitFinish
    \/ RunMerge \/ MergeLoad \/ MergeReconstruct \/ MergeWrite

SpecSplit == InitSplit /\ [][NextSplit]_vars

\* the split has returned (the merge may have followed)
SplitReturned == pc = "split_done" \/ tool = "LangSpliter.merge"

\* the flattening loop has run
Flattened ==
    /\ source_lang_file.ok
    /\ pc # "split_start"
    /\ tool \in {"LangSpliter.split", "LangSpliter.merge"}

UnescapedLines(lines) == [i \in DOMAIN lines |-> unescape_string(lines[i])]

\* C1 as stated: with flattenSingle off, a sequence of n >= 1 strings stored
\* under key k whose flat entries k1..kn reach the merge is, after the
\* regrouping, the sequence under k again, with the same length and order.
C1_RoundTrip ==
    (tool = "LangSpliter.merge" /\ Reconstructed /\ ~flatten_single_lines)
    => \A s \in DOMAIN source_lang_file.data :
          LET e == source_lang_file.data[s]
              lines == UnescapedLines(e.value.v)
          IN  ( /\ e.value.t = "list"
                /\ Len(lines) >= 1
                /\ \A i \in DOMAIN lines :
                      /\ DictHas(combined_data, e.key \o IntToStr(i))
                      /\ DictGet(combined_data, e.key \o IntToStr(i)) = Str(lines[i]) )
              => /\ DictHas(reconstructed_data, e.key)
                 /\ DictGet(reconstructed_data, e.key) = List(lines)

\* the keys from which the same text is left when the trailing digits are cut
StemOf(key) == SubSeq(key, 1, Len(key) - TrailingDigits(key))
NumOf(key) == StrToInt(SubSeq(key, Len(key) - TrailingDigits(key) + 1, Len(key)))

\* the per-chapter output files written so far
ChapterOutputs ==
    {OutputFilename(chapters_dir.files[i].name) : i \in DOMAIN chapters_dir.files}
    \cap DOMAIN json_dir.files

SorterKey(key) ==
    /\ \E ns \in {ChapterDot, QuestDot, TaskDot, RewardDot} :
          /\ StartsWith(key, ns)
          /\ \E n \in 1..(Len(key) - Len(ns) - 1) :
                /\ \A i \in 1..n : key[Len(ns) + i] \in HexUpper
                /\ key[Len(ns) + n + 1] = "."
    /\ \A i \in DOMAIN key : key[i] # NL

ChapterDocs ==
    {c \in DOMAIN chapters_dir.files :
        /\ EndsWith(chapters_dir.files[c].name, DotSnbt)
        /\ chapters_dir.files[c].ok
        /\ chapters_dir.files[c].doc.id # <<>>}

\* the quests with an id that list the id among their tasks (kind = "tasks")
\* or their rewards, over every readable chapter document
Owners(kind, id) ==
    LET readable == {c \in DOMAIN chapters_dir.files :
                        /\ EndsWith(chapters_dir.files[c].name, DotSnbt)
                        /\ chapters_dir.files[c].ok}
        Lists(c, q) ==
            LET quest == chapters_dir.files[c].doc.quests[q]
                ids == IF kind = "tasks" THEN quest.tasks ELSE quest.rewards
            IN  quest.id # <<>> /\ \E i \in DOMAIN ids : ids[i] = id
    IN  UNION {{<<c, q>> : q \in {x \in DOMAIN chapters_dir.files[c].doc.quests :
                                     Lists(c, x)}}
               : c \in readable}

\* the entries of task T and reward R are in the output file of chapter c, and
\* there quest.Q.* precedes task.T.* precedes reward.R.*
GroupedUnder(c, Q, T, R) ==
    LET name == OutputFilename(chapters_dir.files[c].name)
        IsQ(k) == StartsWith(k, QuestDot \o Q \o <<".">>)
        IsT(k) == StartsWith(k, TaskDot \o T \o <<".">>)
        IsR(k) == StartsWith(k, RewardDot \o R \o <<".">>)
    IN  /\ \A i \in DOMAIN lang_data :
              (IsT(lang_data[i].key) \/ IsR(lang_data[i].key))
              => /\ name \in DOMAIN json_dir.files
                 /\ DictHas(json_dir.files[name].data, lang_data[i].key)
                 /\ DictGet(json_dir.files[name].data, lang_data[i].key)
                        = lang_data[i].value
        /\ name \in DOMAIN json_dir.files =>
              LET out == json_dir.files[name].data
              IN  \A i, j \in DOMAIN out :
                     \/ i < j
                     \/ ~ \/ IsQ(out[i].key) /\ IsT(out[j].key)
                          \/ IsQ(out[i].key) /\ IsR(out[j].key)
                          \/ IsT(out[i].key) /\ IsR(out[j].key)

\* C5 as stated: for every chapter document and every quest Q in it that owns
\* task T and reward R, the task.T.* and reward.R.* entries are in the chapter's
\* output file, and there every quest.Q.* entry precedes every task.T.* entry,
\* which precedes every reward.R.* entry.
C5_Original ==
    SplitReturned =>
    \A c \in ChapterDocs :
        \A q \in DOMAIN chapters_dir.files[c].doc.quests :
            LET quest == chapters_dir.files[c].doc.quests[q]
            IN  \A t \in DOMAIN quest.tasks, r \in DOMAIN quest.rewards :
                   (quest.id # <<>> /\ quest.tasks[t] # <<>> /\ quest.rewards[r] # <<>>)
                   => GroupedUnder(c, quest.id, quest.tasks[t], quest.rewards[r])

HexId(id) == id # <<>> /\ \A i \in DOMAIN id : id[i] \in HexUpper

\* C5 amended: for every readable chapter document with an id and every quest Q
\* in it that owns task T and reward R, where Q, T and R are upper-case
\* hexadecimal ids and no other quest of any chapter document lists T or R, the
\* task.T.* and reward.R.* entries are in the chapter's output file, and there
\* every quest.Q.* entry precedes every task.T.* entry, which precedes every
\* reward.R.* entry.
C5_HierarchyGrouping ==
    SplitReturned =>
    \A c \in ChapterDocs :
        \A q \in DOMAIN chapters_dir.files[c].doc.quests :
            LET quest == chapters_dir.files[c].doc.quests[q]
            IN  \A t \in DOMAIN quest.tasks, r \in DOMAIN quest.rewards :
                   ( /\ HexId(quest.id) /\ HexId(quest.tasks[t]) /\ HexId(quest.rewards[r])
                     /\ Owners("tasks", quest.tasks[t]) = {<<c, q>>}
                     /\ Owners("rewards", quest.rewards[r]) = {<<c, q>>} )
                   => GroupedUnder(c, quest.id, quest.tasks[t], quest.rewards[r])

\* the reward entry came before the task entry in the source, and the output
\* file of chapter AB holds the task entry first
C5_Witness ==
    /\ SplitReturned
    /\ Len(lang_data) = 2
    /\ lang_data[1].key = Key(RewardDot, Id12, Title)
    /\ lang_data[2].key = Key(TaskDot, IdEF, Title)
    /\ chapters_dir.exists
    /\ \E c \in ChapterDocs : chapters_dir.files[c].doc = DocHex
    /\ OutputFilename(FileASnbt) \in DOMAIN json_dir.files
    /\ LET out == json_dir.files[OutputFilename(FileASnbt)].data
       IN  /\ Len(out) = 2
           /\ out[1].key = lang_data[2].key
           /\ out[2].key = lang_data[1].key

\* the groups of the pre-classification, in the order of the tests
GroupList ==
    <<groups.chapters_lang_data, groups.quests_data, groups.tasks_data,
      groups.rewards_data>>
    \o groups.categorized_data \o <<groups.other_data>>

HardPrefixes == <<ChapterDot, QuestDot, TaskDot, RewardDot>>

InTableRow(key, i) ==
    \E j \in DOMAIN CATEGORIES_TO_FILES[i].prefixes :
        StartsWith(key, CATEGORIES_TO_FILES[i].prefixes[j])

\* the group the rules of the Categorizer give a key
ExpectedGroup(key) ==
    IF \E h \in DOMAIN HardPrefixes : StartsWith(key, HardPrefixes[h])
    THEN CHOOSE h \in DOMAIN HardPrefixes : StartsWith(key, HardPrefixes[h])
    ELSE IF \E i \in DOMAIN CATEGORIES_TO_FILES : InTableRow(key, i)
    THEN Len(HardPrefixes)
         + (CHOOSE i \in DOMAIN CATEGORIES_TO_FILES :
               InTableRow(key, i) /\ \A j \in 1..(i - 1) : ~InTableRow(key, j))
    ELSE Len(GroupList)

Classified ==
    /\ Flattened
    /\ pc # "split_flat"

\* C6: after the pre-classification every entry of the flat mapping is in
\* exactly one group, the one its first matching prefix names, and in the
\* "other" group exactly when no hardcoded and no table prefix matches its
\* key; the groups hold nothing else.
C6_Partition ==
    Classified =>
    /\ \A i \in DOMAIN lang_data :
          LET k == lang_data[i].key
              holders == {n \in DOMAIN GroupList : DictHas(GroupList[n], k)}
          IN  /\ holders = {ExpectedGroup(k)}
              /\ DictGet(GroupList[ExpectedGroup(k)], k) = lang_data[i].value
              /\ DictHas(groups.other_data, k)
                    <=> /\ \A h \in DOMAIN HardPrefixes : ~StartsWith(k, HardPrefixes[h])
                        /\ \A r \in DOMAIN CATEGORIES_TO_FILES : ~InTableRow(k, r)
    /\ \A n \in DOMAIN GroupList : DictKeys(GroupList[n]) \subseteq DictKeys(lang_data)

\* a flat mapping with an entry for the "other" group and an entry for a table
\* group has been classified
C6_Witness ==
    /\ pc = "split_categorized"
    /\ groups.other_data # <<>>
    /\ \E r \in DOMAIN groups.categorized_data : groups.categorized_data[r] # <<>>
    /\ Len(lang_data) >= 2

\* C7 as stated: a sequence of length n is flattened to key -> unescape(value[0])
\* and no suffixed key when flattenSingle is on and n = 1, and to
\* key{i} -> unescape(value[i-1]) for i in 1..n otherwise; a string is stored
\* under its own key as unescape(value).
C7_FlattenerOutput ==
    Flattened =>
    \A s \in DOMAIN source_lang_file.data :
        LET e == source_lang_file.data[s]
            lines == UnescapedLines(e.value.v)
            others == {source_lang_file.data[o].key :
                          o \in DOMAIN source_lang_file.data \ {s}}
        IN  IF e.value.t = "list" /\ ~(flatten_single_lines /\ Len(lines) = 1)
            THEN \A i \in DOMAIN lines :
                    /\ DictHas(lang_data, e.key \o IntToStr(i))
                    /\ DictGet(lang_data, e.key \o IntToStr(i)) = Str(lines[i])
            ELSE /\ DictHas(lang_data, e.key)
                 /\ DictGet(lang_data, e.key) = Str(lines[1])
                 /\ e.value.t = "list" =>
                       \A i \in 1..9 : DictHas(lang_data, e.key \o IntToStr(i))
                                       => (e.key \o IntToStr(i)) \in others


(***************************************************************************)
(* para2github.py: the translation synchroniser                            *)
(***************************************************************************)
Slash == "/"
TM == <<"T", "M">>
Quests == <<"q", "u", "e", "s", "t", "s">>
Image == <<"i", "m", "a", "g", "e">>
EnUsWord == <<"e", "n", "_", "u", "s">>
KubejsQuestsLang ==
    <<"k", "u", "b", "e", "j", "s", Slash, "a", "s", "s", "e", "t", "s", Slash>>
    \o Quests \o <<Slash, "l", "a", "n", "g", Slash>>

\* the position of the last "/" of a path, 0 when it has none
LastSlash(p) ==
    LET at == {i \in DOMAIN p : p[i] = Slash}
    IN  IF at = {} THEN 0 ELSE CHOOSE i \in at : \A j \in at : j <= i

\* Path.parent and Path.name of a path with a directory part
Parent(p) == Slice(p, 1, LastSlash(p) - 1)
Name(p) == Drop(p, LastSlash(p))
Join(dir, name) == dir \o <<Slash>> \o name

\* fetch_json without raise_for_status: the body of any response is returned
fetch_json_no_raise(response) == [raised |-> FALSE, json |-> response.json]

\* fetch_json: a non-success status raises
fetch_json(response) ==
    IF response.ok THEN [raised |-> FALSE, json |-> response.json]
    ELSE [raised |-> TRUE, json |-> <<>>]

\* line 47 with the test of the stage lost
SelectText_ignore_stage(item) ==
    IF item.translation = <<>> THEN item.original ELSE item.translation

\* line 47: original if item["stage"] in [0, -1, 2] or not translation
SelectText(item) ==
    IF item.stage \in {0, -1, 2} \/ item.translation = <<>>
    THEN item.original
    ELSE item.translation

\* translate: the keys and the selected texts of the fetched items
translate(response) ==
    LET r == fetch_json(response)
    IN  [raised |-> r.raised,
         keys   |-> [i \in DOMAIN r.json |-> r.json[i].key],
         values |-> [i \in DOMAIN r.json |-> SelectText(r.json[i])]]

\* lines 117-121: \" becomes ", and in a quest file every space of a value
\* without "image" becomes U+00A0
ReplaceValue(value, is_quest_file) ==
    LET v == Replace(value, <<BS, QT>>, <<QT>>)
    IN  IF is_quest_file /\ ~Contains(v, Image) THEN Replace(v, <<SP>>, <<NBSP>>) ELSE v

\* the loop over zip(keys, values)
RECURSIVE StoreValues(_, _, _, _)
StoreValues(dict, keys, values, is_quest_file) ==
    IF keys = <<>> THEN dict
    ELSE StoreValues(DictSet(dict, keys[1], Str(ReplaceValue(values[1], is_quest_file))),
                     Tail(keys), Tail(values), is_quest_file)

AbsentSource == [kind |-> "absent", data |-> <<>>]
InvalidSource == [kind |-> "invalid", data |-> <<>>]
ObjectSource(d) == [kind |-> "object", data |-> d]

\* process_translation: raised is "http" when the request fails, "json" when
\* Source/<path> is there and is no JSON (json.load raises a ValueError, only
\* IOError is caught)
process_translation(response, path, source) ==
    LET t == translate(response)
    IN  IF t.raised THEN [raised |-> "http", dict |-> <<>>]
        ELSE IF source.kind = "invalid" THEN [raised |-> "json", dict |-> <<>>]
        ELSE [raised |-> "no",
              dict   |-> StoreValues(IF source.kind = "object" THEN source.data ELSE <<>>,
                                     t.keys, t.values, Contains(path, Quests))]

\* save_translation with the update of the source's values lost
save_translation_no_update(dict, path, source) ==
    [file_path |-> Join(Parent(path), Replace(Name(path), EnUsWord, ZhCn)),
     missing   |-> source.kind # "object",
     data      |-> IF source.kind = "object" THEN source.data ELSE <<>>]

\* save_translation: the file it writes under CNPack/ and whether the source
\* was missing (then the keys are sorted)
save_translation(dict, path, source) ==
    [file_path |-> Join(Parent(path), Replace(Name(path), EnUsWord, ZhCn)),
     missing   |-> source.kind # "object",
     data      |-> IF source.kind = "object"
                   THEN [i \in DOMAIN source.data |->
                            IF DictHas(dict, source.data[i].key)
                            THEN Entry(source.data[i].key, DictGet(dict, source.data[i].key))
                            ELSE source.data[i]]
                   ELSE SortItems(dict)]

UrlFiles == [endpoint |-> "files", id |-> 0]
UrlTranslation(file_id) == [endpoint |-> "translation", id |-> file_id]

\* the files of directory dir of CNPack/, by name
DirOf(tree, dir) ==
    [exists |-> TRUE,
     files  |-> [n \in {Name(q) : q \in {r \in DOMAIN tree : Parent(r) = dir}} |->
                    tree[Join(dir, n)]]]

\* get_files, lines 217 and 53-62
ParaGetFiles ==
    /\ tool = "para2github" /\ pc = "para_start"
    /\ requests' = Append(requests, UrlFiles)
    /\ LET r == fetch_json(remote.list)
       IN  IF r.raised
           THEN /\ pc' = "para_http_error"
                /\ UNCHANGED <<file_list, para_idx>>
           ELSE /\ file_list' = r.json
                /\ para_idx' = 1
                /\ pc' = "para_loop"
    /\ UNCHANGED <<compareVars, tool, escVars, mergeVars, printed, splitVars, paraIn, zh_cn_dict,
                   cnpack, ftb_quests_lang_dir>>

\* lines 220-235: one pass of the loop of main
ParaFile ==
    /\ tool = "para2github" /\ pc = "para_loop"
    /\ para_idx <= Len(file_list)
    /\ LET f == file_list[para_idx]
           source == source_tree[f.name]
           r == process_translation(remote.files[f.id], f.name, source)
           w == save_translation(r.dict, f.name, source)
       IN  IF Contains(f.name, TM)
           THEN /\ para_idx' = para_idx + 1
                /\ UNCHANGED <<pc, requests, zh_cn_dict, cnpack, printed,
                               ftb_quests_lang_dir>>
           ELSE /\ requests' = Append(requests, UrlTranslation(f.id))
                /\ IF r.raised # "no"
                   THEN /\ pc' = IF r.raised = "http" THEN "para_http_error"
                                 ELSE "para_json_error"
                        /\ UNCHANGED <<para_idx, zh_cn_dict, cnpack, printed,
                                       ftb_quests_lang_dir>>
                   ELSE /\ zh_cn_dict' = r.dict
                        /\ cnpack' = [q \in DOMAIN cnpack \cup {w.file_path} |->
                                         IF q = w.file_path
                                         THEN [ok |-> TRUE, data |-> w.data]
                                         ELSE cnpack[q]]
                        /\ printed' = printed
                               \cup {Msg("downloaded", Replace(f.name, EnUsWord, ZhCn))}
                               \cup (IF w.missing THEN {Msg("source_missing", f.name)}
                                     ELSE {})
                        /\ ftb_quests_lang_dir' =
                               IF Contains(f.name, KubejsQuestsLang)
                               THEN [set |-> TRUE, dir |-> Parent(f.name)]
                               ELSE ftb_quests_lang_dir
                        /\ para_idx' = para_idx + 1
                        /\ pc' = pc
    /\ UNCHANGED <<compareVars, tool, escVars, mergeVars, splitVars, paraIn, file_list>>

\* lines 238-243: after the loop, the merge when a quest language file was seen
ParaFinish ==
    /\ tool = "para2github" /\ pc = "para_loop"
    /\ para_idx > Len(file_list)
    /\ IF ftb_quests_lang_dir.set
       THEN /\ printed' = printed \cup {Msg("merge_detected", <<>>)}
            /\ json_dir' = DirOf(cnpack, ftb_quests_lang_dir.dir)
            /\ tool' = "para2github.merge"
            /\ pc' = "merge_start"
       ELSE /\ pc' = "para_done"
            /\ UNCHANGED <<printed, json_dir, tool>>
    /\ UNCHANGED <<compareVars, escVars, combined_data, reconstructed_data, snbt_ready_data,
                   output_snbt, splitVars, paraVars>>

\* ---- the runs of the synchroniser
MaxItems == 2

QuestsPath == KubejsQuestsLang \o EnUsWord \o DotJson
OtherPath == <<"l", "a", "n", "g", Slash>> \o EnUsWord \o DotJson
TMPath == TM \o <<Slash>> \o EnUsWord \o DotJson

Item(key, original, translation, stage) ==
    [key |-> key, original |-> original, translation |-> translation, stage |-> stage]

TextO == <<"o">>
TextT == <<"t">>
TextSpaced == <<"a", SP, "b">>
TextSpaced2 == <<"c", SP, "d">>
TextQuoted == <<"t", BS, QT, "x">>
TextImage == Image \o <<SP, "a">>

ItemPool ==
    {Item(<<"k">>, TextO, TextT, 1),
     Item(<<"k">>, TextO, TextT, 0),
     Item(<<"k">>, TextO, <<>>, 1),
     Item(<<"q">>, TextO, TextT, -1),
     Item(<<"q">>, TextO, TextT, 2),
     Item(<<"q">>, TextSpaced, TextSpaced2, 3),
     Item(<<"k">>, TextO, TextQuoted, 5),
     Item(<<"q">>, TextO, TextImage, 9),
     Item(<<"k">>, TextSpaced, TextT, 0)}

\* the translation lists of at most n items
RECURSIVE ItemsUpTo(_)
ItemsUpTo(n) ==
    IF n = 0 THEN {<<>>}
    ELSE LET shorter == ItemsUpTo(n - 1)
         IN  shorter \cup {Append(s, it) : s \in {u \in shorter : Len(u) = n - 1},
                                            it \in ItemPool}

ErrorResponse == [ok |-> FALSE, json |-> <<>>]
OkResponse(json) == [ok |-> TRUE, json |-> json]

FileInfo(id, name) == [id |-> id, name |-> name]

\* the API: the file list fails; or it lists no file, one file, a TM file and
\* one file, or two files; each translation request fails or returns items
RemoteStates ==
    LET long  == {ErrorResponse} \cup {OkResponse(s) : s \in ItemsUpTo(MaxItems)}
        short == {ErrorResponse} \cup {OkResponse(s) : s \in ItemsUpTo(1)}
        paths == {QuestsPath, OtherPath}
    IN  {[list |-> ErrorResponse, files |-> <<>>],
         [list |-> OkResponse(<<>>), files |-> <<>>]}
        \cup {[list |-> OkResponse(<<FileInfo(1, path)>>), files |-> <<r>>]
              : path \in paths, r \in long}
        \cup {[list |-> OkResponse(<<FileInfo(1, TMPath), FileInfo(2, path)>>),
               files |-> <<OkResponse(<<>>), r>>]
              : path \in paths, r \in short}
        \cup UNION {{[list |-> OkResponse(<<FileInfo(1, path), FileInfo(2, other)>>),
                       files |-> <<r1, r2>>]
                      : other \in paths \ {path}, r1 \in short, r2 \in short}
                     : path \in paths}

SourceObject ==
    ObjectSource(<<Entry(<<"z">>, Str(TextSpaced)), Entry(<<"k">>, Str(<<"s">>))>>)

SourceTrees ==
    {[path \in {QuestsPath, OtherPath, TMPath} |->
         IF path = QuestsPath THEN a ELSE IF path = OtherPath THEN b ELSE AbsentSource]
     : a \in {AbsentSource, InvalidSource, SourceObject},
       b \in {AbsentSource, InvalidSource, SourceObject}}

InitPara ==
    /\ tool = "para2github"
    /\ pc = "para_start"
    /\ EscIdle
    /\ MergeIdle
    /\ SplitIdle
    /\ CompareIdle
    /\ printed = {}
    /\ remote \in RemoteStates
    /\ source_tree \in SourceTrees
    /\ requests = <<>>
    /\ file_list = <<>>
    /\ para_idx = 0
    /\ zh_cn_dict = <<>>
    /\ cnpack = <<>>
    /\ ftb_quests_lang_dir = [set |-> FALSE, dir |-> <<>>]

NextPara ==
    \/ ParaGetFiles
    \/ ParaFile
    \/ ParaFinish
    \/ MergeLoad
    \/ MergeReconstruct
    \/ MergeWrite

SpecPara == InitPara /\ [][NextPara]_vars

\* process_translation has just returned for the file before para_idx
ParaProcessed ==
    /\ tool = "para2github" /\ pc = "para_loop"
    /\ para_idx > 1
    /\ ~Contains(file_list[para_idx - 1].name, TM)

LastFile == file_list[para_idx - 1]
LastItems == remote.files[LastFile.id].json

\* the text the stage rule asks for
Wanted(item) ==
    IF item.stage = 0 \/ item.stage = -1 \/ item.stage = 2 \/ Len(item.translation) = 0
    THEN item.original
    ELSE item.translation

Stored(key) == DictGet(zh_cn_dict, key).v[1]

\* C8 as stated: for every item fetched for a file, the value stored for its key
\* in the output mapping is the original text when the stage is 0, -1 or 2 or
\* the translation is empty, and the translation text otherwise.
C8_Original ==
    ParaProcessed =>
        \A i \in DOMAIN LastItems :
            /\ DictHas(zh_cn_dict, LastItems[i].key)
            /\ Stored(LastItems[i].key) = Wanted(LastItems[i])

LastOfItsKey(i) == \A j \in DOMAIN LastItems : j > i => LastItems[j].key # LastItems[i].key

\* the selected text after the rewriting of process_translation
Rewritten(text, path) ==
    LET u == Replace(text, <<BS, QT>>, <<QT>>)
    IN  IF Contains(path, Quests) /\ ~Contains(u, Image)
        THEN [n \in DOMAIN u |-> IF u[n] = SP THEN NBSP ELSE u[n]]
        ELSE u

\* C8 amended: for every item fetched for a file (the last one when several
\* items share a key), the value stored for its key in the output mapping is
\* the selected text (the original when the stage is 0, -1 or 2 or the
\* translation is empty, the translation otherwise) with every \" replaced by
\* " and, when the file's path contains "quests" and the text does not contain
\* "image", every space replaced by U+00A0; it is the selected text itself
\* when that text has no \" and no space to replace.
C8_StageFallback ==
    ParaProcessed =>
        \A i \in DOMAIN LastItems :
            LastOfItsKey(i) =>
                LET item == LastItems[i]
                    w == Wanted(item)
                IN  /\ DictHas(zh_cn_dict, item.key)
                    /\ Stored(item.key) = Rewritten(w, LastFile.name)
                    /\ ( /\ ~Contains(w, <<BS, QT>>)
                         /\ \/ ~Contains(LastFile.name, Quests)
                            \/ Contains(w, Image)
                            \/ ~Contains(w, <<SP>>) )
                       => Stored(item.key) = w

\* an item of stage 0 with a translation has been stored as its original text
C8_Witness ==
    /\ ParaProcessed
    /\ \E i \in DOMAIN LastItems :
          /\ LastOfItsKey(i)
          /\ LastItems[i].stage = 0
          /\ LastItems[i].translation # <<>>
          /\ LastItems[i].translation # LastItems[i].original
          /\ Stored(LastItems[i].key) = LastItems[i].original

\* the response the API gave to a request
Failed(url) ==
    IF url.endpoint = "files" THEN ~remote.list.ok ELSE ~remote.files[url.id].ok

\* C9: when a request to the API (the file list or a translation list) gets a
\* non-success status, it is the last request of the run (no retry, no later
\* fetch), the run has aborted, the files written are those of the earlier
\* successful translation requests only, and the merge has not been executed.
C9_RemoteErrorAborts ==
    \A i \in DOMAIN requests :
        Failed(requests[i]) =>
            /\ i = Len(requests)
            /\ \A j \in DOMAIN requests : j # i => requests[j] # requests[i]
            /\ tool = "para2github"
            /\ pc = "para_http_error"
            /\ Cardinality(DOMAIN cnpack)
                   = Cardinality({j \in DOMAIN requests :
                                     /\ requests[j].endpoint = "translation"
                                     /\ ~Failed(requests[j])})
            /\ json_dir = NoDir
            /\ combined_data = <<>>
            /\ output_snbt = NoFile

\* the second translation request failed after a quest language file was
\* written: the merge would have run
C9_Witness ==
    /\ pc = "para_http_error"
    /\ Len(requests) = 3
    /\ Failed(requests[3])
    /\ cnpack # <<>>
    /\ ftb_quests_lang_dir.set
    /\ output_snbt = NoFile


(***************************************************************************)
(* Chapter documents without an id                                         *)
(***************************************************************************)
\* the readable chapter documents that have no id
NoIdDocs ==
    {c \in DOMAIN chapters_dir.files :
        /\ EndsWith(chapters_dir.files[c].name, DotSnbt)
        /\ chapters_dir.files[c].ok
        /\ chapters_dir.files[c].doc.id = <<>>}

\* the map holds id -> quest only because a document without id says so
EnteredByNoIdOnly(map, kind, id, quest_id) ==
    /\ id \in DOMAIN map
    /\ map[id] = quest_id
    /\ \A o \in Owners(kind, id) :
          o[1] \in ChapterDocs => chapters_dir.files[o[1]].doc.quests[o[2]].id # quest_id

\* C11 as stated: a chapter document with no id produces no per-chapter output
\* file, none of its quests' tasks or rewards are entered into the task->quest
\* and reward->quest maps, and a warning naming the file is emitted.
C11_NoIdSkipped ==
    (SplitReturned /\ source_lang_file.ok /\ chapters_dir.exists) =>
        \A c \in NoIdDocs :
            LET f == chapters_dir.files[c]
            IN  /\ OutputFilename(f.name) \notin DOMAIN json_dir.files
                /\ \A q \in DOMAIN f.doc.quests :
                      LET quest == f.doc.quests[q]
                      IN  /\ \A i \in DOMAIN quest.tasks :
                                ~EnteredByNoIdOnly(task_to_quest_map, "tasks",
                                                   quest.tasks[i], quest.id)
                          /\ \A i \in DOMAIN quest.rewards :
                                ~EnteredByNoIdOnly(reward_to_quest_map, "rewards",
                                                   quest.rewards[i], quest.id)
                /\ \E m \in printed : m[2] = f.name


(***************************************************************************)
(* compare_archives.py: the archive comparison and its report              *)
(***************************************************************************)
\* A file of an extracted archive: its content (id stands for the bytes, so
\* for the SHA-256 digest too; size; text is "text" when it all decodes as
\* UTF-8, "late_bad" when only its first 1024 characters do, "binary" when not
\* even those do) and whether open() succeeds on it.
CmpContent(id, size, text) == [id |-> id, size |-> size, text |-> text]
CmpFile(content, readable) == [content |-> content, readable |-> readable]
NoCmpFile == CmpFile(CmpContent(0, 0, "binary"), FALSE)

\* is_text_file: open and decode the first 1024 characters
is_text_file(f) == f.readable /\ f.content.text # "binary"

NoDiff == [error |-> FALSE, of |-> <<>>]

\* generate_contextual_diff: the inline error when a file cannot be read
\* whole, else the statistics and the table difflib computes from the two
\* contents (kept as the pair of contents)
generate_contextual_diff(f1, f2) ==
    IF f1.readable /\ f2.readable /\ f1.content.text = "text" /\ f2.content.text = "text"
    THEN [error |-> FALSE, of |-> <<f1.content.id, f2.content.id>>]
    ELSE [error |-> TRUE, of |-> <<>>]

files1(in) == {path \in DOMAIN in.files : in.files[path].in1}
files2(in) == {path \in DOMAIN in.files : in.files[path].in2}
common_files(in) == files1(in) \cap files2(in)

\* lines 135-136: the sizes are equal and read_bytes raises on either file
HashRaises(e) ==
    /\ e.f1.content.size = e.f2.content.size
    /\ ~e.f1.readable \/ ~e.f2.readable

\* lines 135-136 when nothing raises
IsIdentical(e) ==
    /\ e.f1.content.size = e.f2.content.size
    /\ e.f1.content.id = e.f2.content.id

\* lines 139-147
ModifiedEntry(path, e) ==
    LET is_text == is_text_file(e.f1) /\ is_text_file(e.f2)
    IN  [path |-> path, is_binary |-> ~is_text,
         diff_data |-> IF is_text THEN generate_contextual_diff(e.f1, e.f2) ELSE NoDiff]

\* compare_directories when no file raises
compare_directories(in) ==
    LET common == common_files(in)
        same == {path \in common : IsIdentical(in.files[path])}
        changed == SortStrings(common \ same)
    IN  [added |-> SortStrings(files2(in) \ files1(in)),
         removed |-> SortStrings(files1(in) \ files2(in)),
         modified |-> [i \in DOMAIN changed |-> ModifiedEntry(changed[i], in.files[changed[i]])],
         identical |-> SortStrings(same)]

\* the "generating diff" messages of the files the loop may have reached
DiffMessages(in) ==
    {Msg("diff", path) : path \in {q \in common_files(in) :
                                      /\ ~HashRaises(in.files[q])
                                      /\ ~IsIdentical(in.files[q])
                                      /\ is_text_file(in.files[q].f1)
                                      /\ is_text_file(in.files[q].f2)}}

\* main, lines 263-269: both archives must exist and extract
CompareExtract ==
    /\ tool = "compare_archives" /\ pc = "compare_start"
    /\ LET a == cmp_in.archives
       IN  IF ~a[1].exists \/ ~a[2].exists
           THEN /\ printed' = printed \cup {Msg("archive_missing", <<>>)}
                /\ pc' = "compare_done"
           ELSE IF ~a[1].extracts \/ ~a[2].extracts
           THEN /\ printed' = printed \cup {Msg("extract_failed", <<>>)}
                /\ pc' = "compare_done"
           ELSE /\ printed' = printed \cup {Msg("extracting", <<>>)}
                /\ pc' = "compare_extracted"
    /\ UNCHANGED <<tool, escVars, mergeVars, splitVars, paraVars, compareVars>>

\* main, line 271: compare_directories; an exception of read_bytes is caught
\* nowhere and ends the run, after the messages of the files the loop over
\* the set common_files had reached
CompareDirectories ==
    /\ tool = "compare_archives" /\ pc = "compare_extracted"
    /\ IF \E path \in common_files(cmp_in) : HashRaises(cmp_in.files[path])
       THEN /\ \E seen \in SUBSET DiffMessages(cmp_in) :
                  printed' = printed \cup {Msg("comparing", <<>>)} \cup seen
            /\ pc' = "compare_raised"
            /\ UNCHANGED cmp_results
       ELSE /\ cmp_results' = compare_directories(cmp_in)
            /\ printed' = printed \cup {Msg("comparing", <<>>), Msg("compared", <<>>)}
                                  \cup DiffMessages(cmp_in)
            /\ pc' = "compare_compared"
    /\ UNCHANGED <<tool, escVars, mergeVars, splitVars, paraVars, cmp_in, report>>

\* main, lines 272-273: generate_html_report, which writes nothing when the
\* template is missing
CompareReport ==
    /\ tool = "compare_archives" /\ pc = "compare_compared"
    /\ IF cmp_in.template
       THEN /\ report' = [written |-> TRUE, sections |-> cmp_results]
            /\ printed' = printed \cup {Msg("report_done", <<>>), Msg("report_saved", <<>>)}
       ELSE /\ report' = report
            /\ printed' = printed \cup {Msg("template_missing", <<>>),
                                        Msg("report_saved", <<>>)}
    /\ pc' = "compare_done"
    /\ UNCHANGED <<tool, escVars, mergeVars, splitVars, paraVars, cmp_in, cmp_results>>


\* ---- the runs of the comparison
CmpContents ==
    {CmpContent(1, 1, "text"), CmpContent(2, 1, "text"), CmpContent(3, 2, "text"),
     CmpContent(4, 1, "late_bad"), CmpContent(5, 1, "binary")}

CmpFiles == {CmpFile(c, r) : c \in CmpContents, r \in BOOLEAN}

InBoth(f1, f2) == [in1 |-> TRUE, in2 |-> TRUE, f1 |-> f1, f2 |-> f2]
OnlyIn1(f) == [in1 |-> TRUE, in2 |-> FALSE, f1 |-> f, f2 |-> NoCmpFile]
OnlyIn2(f) == [in1 |-> FALSE, in2 |-> TRUE, f1 |-> NoCmpFile, f2 |-> f]
InNeither == [in1 |-> FALSE, in2 |-> FALSE, f1 |-> NoCmpFile, f2 |-> NoCmpFile]

PathA == <<"a">>
PathB == <<"b">>

\* file a is in both archives in every state of CmpFiles, or in one archive
\* only; file b is absent, added, identical, modified or unreadable
CmpTrees ==
    LET plain == CmpFile(CmpContent(1, 1, "text"), TRUE)
        other == CmpFile(CmpContent(3, 2, "text"), TRUE)
        locked == CmpFile(CmpContent(1, 1, "text"), FALSE)
        A == {InBoth(f1, f2) : f1 \in CmpFiles, f2 \in CmpFiles}
             \cup {OnlyIn1(plain), OnlyIn2(plain)}
        B == {InNeither, OnlyIn2(plain), InBoth(plain, plain), InBoth(plain, other),
              InBoth(locked, plain)}
    IN  {[path \in {PathA, PathB} |-> IF path = PathA THEN a ELSE b] : a \in A, b \in B}

Archive(exists, extracts) == [exists |-> exists, extracts |-> extracts]

CmpArchives ==
    {<<Archive(TRUE, TRUE), Archive(TRUE, TRUE)>>,
     <<Archive(TRUE, TRUE), Archive(FALSE, FALSE)>>,
     <<Archive(TRUE, FALSE), Archive(TRUE, TRUE)>>,
     <<Archive(TRUE, TRUE), Archive(TRUE, FALSE)>>}

InitCompare ==
    /\ tool = "compare_archives"
    /\ pc = "compare_start"
    /\ EscIdle
    /\ MergeIdle
    /\ SplitIdle
    /\ ParaIdle
    /\ printed = {}
    /\ cmp_in \in {[archives |-> a, files |-> f, template |-> t]
                   : a \in CmpArchives, f \in CmpTrees, t \in BOOLEAN}
    /\ cmp_results = NoResults
    /\ report = NoReport

NextCompare == CompareExtract \/ CompareDirectories \/ CompareReport

SpecCompare == InitCompare /\ [][NextCompare]_vars

\* a file of both archives on which open() fails
UnreadableCommon(path) ==
    /\ path \in common_files(cmp_in)
    /\ ~cmp_in.files[path].f1.readable \/ ~cmp_in.files[path].f2.readable

CompareEnded == pc \in {"compare_done", "compare_raised"}

\* C12 as stated: when a file present in both extracted archives cannot be
\* read while compare_directories processes it, the run still completes and
\* writes the report, and that file's entry in the report carries an inline
\* error message.
C12_UnreadableDegrades ==
    ( /\ tool = "compare_archives" /\ CompareEnded
      /\ \A i \in DOMAIN cmp_in.archives :
            cmp_in.archives[i].exists /\ cmp_in.archives[i].extracts
      /\ cmp_in.template )
    => \A path \in DOMAIN cmp_in.files :
          UnreadableCommon(path) =>
              /\ pc = "compare_done"
              /\ report.written
              /\ \E i \in DOMAIN report.sections.modified :
                    /\ report.sections.modified[i].path = path
                    /\ ~report.sections.modified[i].is_binary
                    /\ report.sections.modified[i].diff_data.error


(***************************************************************************)
(* The regrouping of merge_all_to_snbt: order and completeness             *)
(***************************************************************************)
\* key is p followed by one or more decimal digits
IsPrefixDigits(key, p) ==
    /\ StartsWith(key, p)
    /\ Len(key) > Len(p)
    /\ \A j \in (Len(p) + 1)..Len(key) : key[j] \in Digits

\* the proper prefixes of the keys of the input
InputPrefixes ==
    UNION {{SubSeq(combined_data[i].key, 1, n) : n \in 0..(Len(combined_data[i].key) - 1)}
           : i \in DOMAIN combined_data}

\* the list is the values of the entries idx of the input, ascending by Num,
\* entries of equal Num in input order
ListOfEntries(list, idx, Num(_)) ==
    /\ Len(list) = Cardinality(idx)
    /\ \E f \in [DOMAIN list -> idx] :
          /\ \A m, n \in DOMAIN list : m # n => f[m] # f[n]
          /\ \A n \in DOMAIN list : list[n] = combined_data[f[n]].value.v[1]
          /\ \A m, n \in DOMAIN list :
                m < n => \/ Num(f[m]) < Num(f[n])
                         \/ Num(f[m]) = Num(f[n]) /\ f[m] < f[n]

\* C13 as stated: for every prefix p for which the input has keys of the form
\* p followed by decimal digits, the reconstructed mapping holds under p the
\* list of the values of exactly those keys, by ascending digit suffix.
C13_Original ==
    Reconstructed =>
        \A p \in InputPrefixes :
            LET idx == {i \in DOMAIN combined_data : IsPrefixDigits(combined_data[i].key, p)}
                Num(i) == StrToInt(Drop(combined_data[i].key, Len(p)))
            IN  idx # {} =>
                    /\ DictHas(reconstructed_data, p)
                    /\ DictGet(reconstructed_data, p).t = "list"
                    /\ ListOfEntries(DictGet(reconstructed_data, p).v, idx, Num)

\* key without one final line break
Chomp(key) ==
    IF key # <<>> /\ key[Len(key)] = NL THEN SubSeq(key, 1, Len(key) - 1) ELSE key

\* C13 amended: for every prefix p that does not end in a digit and holds no
\* line break, for which the input has keys of the form p followed by decimal
\* digits (and possibly one final line break), the reconstructed mapping holds
\* under p the list of the values of exactly those keys, ordered by ascending
\* integer value of the digits, keys of equal value in input order.
C13_ReconstructOrder ==
    Reconstructed =>
        \A p \in InputPrefixes :
            LET idx == {i \in DOMAIN combined_data :
                           IsPrefixDigits(Chomp(combined_data[i].key), p)}
                Num(i) == StrToInt(Drop(Chomp(combined_data[i].key), Len(p)))
            IN  ( /\ idx # {}
                  /\ p = <<>> \/ p[Len(p)] \notin Digits
                  /\ \A j \in DOMAIN p : p[j] # NL )
                =>  /\ DictHas(reconstructed_data, p)
                    /\ DictGet(reconstructed_data, p).t = "list"
                    /\ ListOfEntries(DictGet(reconstructed_data, p).v, idx, Num)

\* two keys of one prefix arrived in descending order of their digits with
\* different values, and the list has them in ascending order
C13_Witness ==
    /\ Reconstructed
    /\ \E i, j \in DOMAIN combined_data :
          LET mi == multi_line_pattern(combined_data[i].key)
              mj == multi_line_pattern(combined_data[j].key)
          IN  /\ i < j
              /\ mi.matched /\ mj.matched
              /\ mi.base_key = mj.base_key
              /\ mi.line_number > mj.line_number
              /\ combined_data[i].value # combined_data[j].value
              /\ DictGet(reconstructed_data, mi.base_key).v
                     = <<combined_data[j].value.v[1], combined_data[i].value.v[1]>>


(***************************************************************************)
(* The sorter: custom rank and level rank                                  *)
(***************************************************************************)
\* the position of the first "." of s, 0 when it has none
FirstDot(s) ==
    LET at == {i \in DOMAIN s : s[i] = "."}
    IN  IF at = {} THEN 0 ELSE CHOOSE i \in at : \A j \in at : i <= j

\* a key  ns<id>.<field>  of namespace ns: its id and its field suffix (from
\* the "." on)
HasField(key, ns) == StartsWith(key, ns) /\ FirstDot(Drop(key, Len(ns))) > 1
KeyId(key, ns) == SubSeq(key, Len(ns) + 1, Len(ns) + FirstDot(Drop(key, Len(ns))) - 1)
KeyField(key, ns) == Drop(key, Len(ns) + FirstDot(Drop(key, Len(ns))) - 1)

\* the field suffix begins with a suffix of the order list of the namespace
Listed(key, ns) ==
    \E i \in DOMAIN ConfigOrder(SORT_ORDER_CONFIG, ns) :
        StartsWith(KeyField(key, ns), ConfigOrder(SORT_ORDER_CONFIG, ns)[i])

\* the position of a key in the flat mapping, the order in which the entries
\* of one namespace reach the sorter
InputPos(key) == CHOOSE i \in DOMAIN lang_data : lang_data[i].key = key

SameGroup(a, b, ns) ==
    /\ HasField(a, ns) /\ HasField(b, ns)
    /\ KeyId(a, ns) = KeyId(b, ns)

ChapterKey(key) == StartsWith(key, ChapterDot)

\* the key starts with "chapter." and an upper-case hexadecimal digit
ChapterHexKey(key) ==
    /\ StartsWith(key, ChapterDot)
    /\ Len(key) > Len(ChapterDot)
    /\ key[Len(ChapterDot) + 1] \in HexUpper

LevelRank(key) ==
    create_sort_key(key, SORT_ORDER_CONFIG, task_to_quest_map, reward_to_quest_map)
        .is_chapter_key

\* C15 as stated: create_sort_key gives level rank 0 to every key that starts
\* with "chapter." and 1 to every other key, so in every sorted per-chapter
\* output all keys starting with "chapter." precede all keys that do not.
C15_Original ==
    \A f \in ChapterOutputs :
        LET out == json_dir.files[f].data
        IN  /\ \A i \in DOMAIN out :
                  LevelRank(out[i].key) = IF ChapterKey(out[i].key) THEN 0 ELSE 1
            /\ \A i, j \in DOMAIN out :
                  (ChapterKey(out[i].key) /\ ~ChapterKey(out[j].key)) => i < j

\* C15 amended: create_sort_key gives level rank 0 to every key that starts
\* with "chapter." followed by an upper-case hexadecimal digit and 1 to every
\* other key, so in every sorted per-chapter output all keys of that form
\* precede all other keys.
C15_LevelRank ==
    \A f \in ChapterOutputs :
        LET out == json_dir.files[f].data
        IN  /\ \A i \in DOMAIN out :
                  LevelRank(out[i].key) = IF ChapterHexKey(out[i].key) THEN 0 ELSE 1
            /\ \A i, j \in DOMAIN out :
                  (ChapterHexKey(out[i].key) /\ ~ChapterHexKey(out[j].key)) => i < j

\* quest.CD.title came before chapter.EF.title in the source, and the file of
\* chapter EF holds the chapter's title first although EF is above CD
C15_Witness ==
    /\ Len(lang_data) = 2
    /\ lang_data[1].key = Key(QuestDot, IdCD, Title)
    /\ lang_data[2].key = Key(ChapterDot, IdEF, Title)
    /\ OutputFilename(FileASnbt) \in DOMAIN json_dir.files
    /\ LET out == json_dir.files[OutputFilename(FileASnbt)].data
       IN  /\ Len(out) = 2
           /\ out[1].key = lang_data[2].key
           /\ out[2].key = lang_data[1].key


\* the number of values of a mapping: one per string, one per list element
RECURSIVE ValueCount(_)
ValueCount(d) ==
    IF d = <<>> THEN 0
    ELSE (IF d[1].value.t = "list" THEN Len(d[1].value.v) ELSE 1) + ValueCount(Tail(d))

\* C16 as stated: every (key, value) of the merged flat input is present in
\* the reconstructed mapping, under its own key when the key does not end in a
\* digit and as an element of the list under its prefix when it does; the
\* number of values in the result equals the number of input entries.
C16_NoEntryLost ==
    Reconstructed =>
        /\ \A i \in DOMAIN combined_data :
              LET key == combined_data[i].key
                  text == combined_data[i].value.v[1]
              IN  IF ~EndsInDigit(key)
                  THEN /\ DictHas(reconstructed_data, key)
                       /\ DictGet(reconstructed_data, key) = Str(text)
                  ELSE \E p \in InputPrefixes :
                          /\ IsPrefixDigits(key, p)
                          /\ DictHas(reconstructed_data, p)
                          /\ DictGet(reconstructed_data, p).t = "list"
                          /\ \E n \in DOMAIN DictGet(reconstructed_data, p).v :
                                DictGet(reconstructed_data, p).v[n] = text
        /\ ValueCount(reconstructed_data) = Len(combined_data)


(***************************************************************************)
(* The flattening: one flat key per source value                           *)
(***************************************************************************)
\* the flat keys the flattening loop writes for one source entry
WrittenKeys(e) ==
    IF e.value.t = "list" /\ ~(flatten_single_lines /\ Len(e.value.v) = 1)
    THEN {e.key \o IntToStr(i) : i \in DOMAIN e.value.v}
    ELSE {e.key}

\* C17 as stated: no two distinct source entries or sequence elements are
\* written to the same flat key, so the flat mapping has one entry per source
\* string value plus one per sequence element.
C17_FlattenInjective ==
    Flattened =>
        /\ \A i, j \in DOMAIN source_lang_file.data :
              i # j => WrittenKeys(source_lang_file.data[i])
                           \cap WrittenKeys(source_lang_file.data[j]) = {}
        /\ Len(lang_data) = ValueCount(source_lang_file.data)


(***************************************************************************)
(* The split: where the flat entries go                                    *)
(***************************************************************************)
\* the output files that hold the entry
FilesHolding(e) ==
    {f \in DOMAIN json_dir.files :
        /\ json_dir.files[f].ok
        /\ DictHas(json_dir.files[f].data, e.key)
        /\ DictGet(json_dir.files[f].data, e.key) = e.value}

\* C18 as stated: after split_and_process_all completes with a chapters
\* directory present, every entry of the flat mapping has been written to
\* exactly one output JSON file; in particular every chapter., quest., task.
\* and reward. entry is in exactly one per-chapter file.
C18_SplitCoverage ==
    (SplitReturned /\ source_lang_file.ok /\ chapters_dir.exists) =>
        \A i \in DOMAIN lang_data :
            /\ Cardinality(FilesHolding(lang_data[i])) = 1
            /\ (\E ns \in {ChapterDot, QuestDot, TaskDot, RewardDot} :
                    StartsWith(lang_data[i].key, ns))
               => FilesHolding(lang_data[i]) \subseteq ChapterOutputs


(***************************************************************************)
(* The synchroniser: what save_translation writes                          *)
(***************************************************************************)
\* the zh_cn file of the file processed last, and its Source file
LastTarget ==
    Join(Parent(LastFile.name), Replace(Name(LastFile.name), EnUsWord, ZhCn))
LastWritten == cnpack[LastTarget].data
LastSource == source_tree[LastFile.name]

====
